---- MODULE Spec2Model ----
(***************************************************************************)
(* A state-machine model of Aurora-Swarm's client pool family              *)
(* (aurora_swarm/pool.py, aurora_swarm/vllm_pool.py): pool objects and     *)
(* the subpools derived from them, the shared asyncio semaphore, the       *)
(* lazily opened aiohttp sessions, and the request coroutines (post) that  *)
(* send_all / broadcast_prompt gather; and of the reverse proxy's request   *)
(* handler (aurora_swarm/proxy.py).                                        *)
(*                                                                         *)
(* Python values are modelled as follows.  A str is a tuple of string      *)
(* tokens ("" is << >>); an Optional[str] that is None is the tuple None.  *)
(* A list is a sequence, read with 0-based Python indices through At.      *)
(* An object (endpoint, session, semaphore, pool) is the index under which *)
(* it was allocated; a reference is that index, 0 for a None reference.    *)
(***************************************************************************)
EXTENDS Integers, Sequences, FiniteSets, TLC

\* ------------------------------------------------------------------ bounds

\* Largest number of endpoints of the root pool.
MaxAgents == 3
\* Largest semaphore capacity (the concurrency argument) explored.
MaxConcurrency == 2
\* Largest number of pool objects (the root and its subpools) of a family.
MaxPools == 3
\* Largest number of request coroutines (post calls) started one by one.
MaxTasks == 2
\* Longest prompt list handed to send_all.
MaxPrompts == 3

\* Largest level a tree_reduce is followed to.
MaxLevels == 3
MaxStages == 3
StageAgents == 2
BoardAgents == 4
MaxRounds == 2
MaxRuns == 1
\* Root size and number of pool objects of a family that also issues requests.
FamilyAgents == 2
FamilyPools == 2

\* --------------------------------------------------------- Python helpers

None == <<"<None>">>
NoSession == 0

IntStr == <<"0", "1", "2", "3", "4", "5", "6", "7", "8", "9">>
\* str(i) for a small non-negative integer.
Str(i) == IntStr[i + 1]

Min(a, b) == IF a <= b THEN a ELSE b
Max(a, b) == IF a >= b THEN a ELSE b

\* seq[i] with a Python index: 0-based, negative indices count from the end.
ValidIndex(seq, i) == -Len(seq) <= i /\ i < Len(seq)
At(seq, i) == IF i >= 0 THEN seq[i + 1] ELSE seq[Len(seq) + i + 1]

\* seq[start:stop] with Python's clamping of negative and out-of-range bounds.
SliceBound(n, b) == IF b < 0 THEN Max(n + b, 0) ELSE Min(b, n)
PySlice(seq, start, stop) ==
    LET lo == SliceBound(Len(seq), start)
        hi == SliceBound(Len(seq), stop)
    IN  IF lo >= hi THEN << >> ELSE SubSeq(seq, lo + 1, hi)

\* s.rstrip('/'): drop every trailing "/" token.
RECURSIVE RStripSlash(_)
RStripSlash(s) ==
    IF s # << >> /\ s[Len(s)] = "/" THEN RStripSlash(SubSeq(s, 1, Len(s) - 1))
    ELSE s

Range(f) == {f[x] : x \in DOMAIN f}
Injective(f) == \A a, b \in DOMAIN f : f[a] = f[b] => a = b

\* -------------------------------------------------------------- endpoints

\* The endpoint objects handed to the root pool, named by their position in
\* that list.  Tags follow the tests' tag_fn: even agents are workers.
HostName == <<"host0", "host1", "host2", "host3", "host4">>
EpTags(e) == IF e % 2 = 0 THEN [role |-> "worker"] ELSE [role |-> "critic"]
\* dict.get(key): the tag's value, or "" standing for the None of a missing key.
TagGet(e, key) == IF key \in DOMAIN EpTags(e) THEN EpTags(e)[key] ELSE ""
\* AgentEndpoint.url
EpUrl(e) == <<"http://", HostName[e + 1], ":8000">>

\* ------------------------------------------------------------------ state

VARIABLES
    pools,      \* the pool objects of the family; pools[1] is the root
    sessions,   \* the aiohttp.ClientSession objects constructed so far
    sems,       \* the asyncio.Semaphore objects: each one's free permits
    tasks,      \* the post coroutines: locals, position and result
    calls,      \* the send_all / broadcast_prompt calls and what they returned
    raised,     \* the exception the last synchronous API call raised, or ""
    handlers,   \* the proxy's _proxy_handler coroutines, one per proxied request
    patterns    \* the pattern coroutines (tree_reduce, run_pipeline, Blackboard.run)

vars == <<pools, sessions, sems, tasks, calls, raised, handlers, patterns>>

\* -------------------------------------------------------------- constructors

\* AgentPool.__init__: `proxy_url or os.environ.get(...)`, a fresh semaphore of
\* `concurrency` permits (sems[1]), no session yet, identity global indices.
AgentPoolInit(n, concurrency, proxy_param, proxy_env) ==
    [cls |-> "AgentPool",
     endpoints |-> [i \in 1 .. n |-> i - 1],
     concurrency |-> concurrency,
     semaphore |-> 1,
     session |-> NoSession,
     proxy_url |-> IF proxy_param # None /\ proxy_param # << >>
                   THEN proxy_param ELSE proxy_env,
     global_indices |-> [i \in 1 .. n |-> i - 1],
     model_max_context |-> 0,
     model_max_context_cached |-> 0]

\* The default of VLLMPool's buffer argument.
DefaultBuffer == 512

\* The AURORA_SWARM_* variables VLLMPool.__init__ reads from os.environ; << >>
\* is a variable that is not set.
NoEnviron ==
    [AURORA_SWARM_MAX_TOKENS |-> << >>, AURORA_SWARM_MODEL_MAX_CONTEXT |-> << >>]

\* int() of the texts the environment variables hold.
EnvInt(text) ==
    CASE text = "512" -> 512
      [] text = "256" -> 256
      [] text = "4096" -> 4096

\* self._model_max_context of __init__: the argument, or else the environment's
\* AURORA_SWARM_MODEL_MAX_CONTEXT, or else None (0).
ConfiguredMaxContext(model_max_context, environ) ==
    IF model_max_context # 0 THEN model_max_context
    ELSE IF environ.AURORA_SWARM_MODEL_MAX_CONTEXT # << >>
    THEN EnvInt(environ.AURORA_SWARM_MODEL_MAX_CONTEXT[1])
    ELSE 0

\* VLLMPool.__init__: super().__init__ without proxy_url (so only the
\* environment can set it), then the chat configuration.  0 is None; use_batch
\* has its default.  config is history: the arguments and environment the
\* pool was constructed with.
VLLMPoolConfig(n, concurrency, proxy_env, max_tokens, model_max_context, buffer, environ) ==
    [AgentPoolInit(n, concurrency, None, proxy_env) EXCEPT
        !.cls = "VLLMPool",
        !.model_max_context = ConfiguredMaxContext(model_max_context, environ),
        !.model_max_context_cached = 0]
    @@ [use_batch |-> TRUE,
        max_tokens |-> IF max_tokens # 0 THEN max_tokens
                       ELSE EnvInt(IF environ.AURORA_SWARM_MAX_TOKENS = << >> THEN "512"
                                   ELSE environ.AURORA_SWARM_MAX_TOKENS[1]),
        buffer |-> buffer,
        config |-> [model_max_context |-> model_max_context, environ |-> environ]]

\* VLLMPool(endpoints, concurrency=..., model_max_context=...) with no budget
\* argument and none of the variables set.
VLLMPoolInit(n, concurrency, proxy_env, model_max_context) ==
    VLLMPoolConfig(n, concurrency, proxy_env, 0, model_max_context, DefaultBuffer,
                   NoEnviron)

\* AgentPool._sub_pool: the child copies the parent's settings and its
\* references to the semaphore and to the session the parent has right now.
SubPoolChild(parent, endpoints, global_indices) ==
    [cls |-> "AgentPool",
     endpoints |-> endpoints,
     concurrency |-> parent.concurrency,
     semaphore |-> parent.semaphore,
     session |-> parent.session,
     proxy_url |-> parent.proxy_url,
     global_indices |-> global_indices,
     model_max_context |-> 0,
     model_max_context_cached |-> 0]

Size(P) == Len(P.endpoints)

\* AgentPool._agent_base_url
AgentBaseUrl(P, agent_index) ==
    IF P.proxy_url = None THEN EpUrl(At(P.endpoints, agent_index))
    ELSE RStripSlash(P.proxy_url)
            \o <<"/agent/", Str(At(P.global_indices, agent_index))>>

\* ---------------------------------------------------------------- selectors

\* The local positions by_tag's loop keeps, in source order.
RECURSIVE TagMatches(_, _, _, _)
TagMatches(P, key, value, i) ==
    IF i >= Size(P) THEN << >>
    ELSE (IF TagGet(At(P.endpoints, i), key) = value THEN <<i>> ELSE << >>)
            \o TagMatches(P, key, value, i + 1)

\* A selector that hands on the local positions as global indices.
PickedLocal(P, locals) ==
    [endpoints |-> [k \in 1 .. Len(locals) |-> At(P.endpoints, locals[k])],
     global_indices |-> [k \in 1 .. Len(locals) |->
                            IF locals[k] >= 0 THEN locals[k] ELSE Size(P) + locals[k]]]

\* What a selector hands to _sub_pool: the endpoints and global indices at the
\* chosen local positions.
Picked(P, locals) ==
    [endpoints |-> [k \in 1 .. Len(locals) |-> At(P.endpoints, locals[k])],
     global_indices |-> [k \in 1 .. Len(locals) |-> At(P.global_indices, locals[k])]]

\* A _sub_pool that gives the child a semaphore of its own.
CallSubPoolOwnSemaphore(p, endpoints, global_indices) ==
    /\ raised' = ""
    /\ pools' = Append(pools,
            [SubPoolChild(pools[p], endpoints, global_indices)
                EXCEPT !.semaphore = Len(sems) + 1] @@ [derived_from |-> p])
    /\ sems' = Append(sems, pools[p].concurrency)

\* self._sub_pool(endpoints, global_indices=...) as the selectors call it.  On a
\* VLLMPool the call reaches VLLMPool._sub_pool(self, endpoints), which takes no
\* global_indices keyword: the call raises TypeError and no pool is made.
\* derived_from is history: the pool the selector was called on (0: the root).
CallSubPool(p, endpoints, global_indices) ==
    IF pools[p].cls = "VLLMPool"
    THEN /\ raised' = "TypeError"
         /\ UNCHANGED <<pools, sems>>
    ELSE /\ raised' = ""
         /\ pools' = Append(pools, SubPoolChild(pools[p], endpoints, global_indices)
                                        @@ [derived_from |-> p])
         /\ UNCHANGED sems

\* AgentPool.by_tag
ByTag(p, key, value) ==
    /\ LET pick == Picked(pools[p], TagMatches(pools[p], key, value, 0))
       IN  CallSubPool(p, pick.endpoints, pick.global_indices)
    /\ UNCHANGED <<sessions, tasks, calls, handlers, patterns>>

\* AgentPool.sample: random.sample(range(size), min(n, size)) is any sequence of
\* that many distinct local positions; a negative n raises ValueError.
Sample(p, n, chosen_local) ==
    /\ IF n < 0
       THEN raised' = "ValueError" /\ UNCHANGED <<pools, sems>>
       ELSE /\ Len(chosen_local) = Min(n, Size(pools[p]))
            /\ Range(chosen_local) \subseteq 0 .. Size(pools[p]) - 1
            /\ Injective(chosen_local)
            /\ LET pick == Picked(pools[p], chosen_local)
               IN  CallSubPool(p, pick.endpoints, pick.global_indices)
    /\ UNCHANGED <<sessions, tasks, calls, handlers, patterns>>

\* AgentPool.select: an index outside the list raises IndexError.
Select(p, indices) ==
    /\ IF \E k \in 1 .. Len(indices) : ~ValidIndex(pools[p].endpoints, indices[k])
       THEN raised' = "IndexError" /\ UNCHANGED <<pools, sems>>
       ELSE LET pick == Picked(pools[p], indices)
            IN  CallSubPool(p, pick.endpoints, pick.global_indices)
    /\ UNCHANGED <<sessions, tasks, calls, handlers, patterns>>

\* AgentPool.slice
Slice(p, start, stop) ==
    /\ CallSubPool(p, PySlice(pools[p].endpoints, start, stop),
                      PySlice(pools[p].global_indices, start, stop))
    /\ UNCHANGED <<sessions, tasks, calls, handlers, patterns>>

\* ----------------------------------------------------------------- lifecycle

\* AgentPool._get_session on pool p, given the pools and sessions so far: a
\* pool whose reference is None or names a closed session constructs a session
\* of its own and keeps it.  by and closed_by are history: the pool that
\* constructed the session and the pool whose close() closed it.
GetSession(ps, ss, p) ==
    IF ps[p].session = NoSession \/ ss[ps[p].session].closed
    THEN [pools |-> [ps EXCEPT ![p].session = Len(ss) + 1],
          sessions |-> Append(ss, [closed |-> FALSE, by |-> p, closed_by |-> 0]),
          session |-> Len(ss) + 1]
    ELSE [pools |-> ps, sessions |-> ss, session |-> ps[p].session]

\* A close() that does not look at the session before closing it.
CloseUnguarded(p) ==
    /\ IF pools[p].session = NoSession
       THEN raised' = "AttributeError" /\ UNCHANGED sessions
       ELSE /\ raised' = IF sessions[pools[p].session].closed THEN "RuntimeError" ELSE ""
            /\ sessions' = [sessions EXCEPT ![pools[p].session].closed = TRUE,
                                              ![pools[p].session].closed_by = p]
    /\ UNCHANGED <<pools, sems, tasks, calls, handlers, patterns>>

\* AgentPool.close: closes the session this pool refers to, if it is open.
Close(p) ==
    /\ IF pools[p].session # NoSession /\ ~sessions[pools[p].session].closed
       THEN sessions' = [sessions EXCEPT ![pools[p].session].closed = TRUE,
                                         ![pools[p].session].closed_by = p]
       ELSE UNCHANGED sessions
    /\ raised' = ""
    /\ UNCHANGED <<pools, sems, tasks, calls, handlers, patterns>>

\* ------------------------------------------------------------------ replies

\* What the network and the backend can hand back to one HTTP request: an
\* exception of the transport, or a reply with a status and a body that is
\* either not JSON or a JSON object.  The echo backend answers with the prompt.
Echo(prompt) == <<"echo: ", prompt>>
EmptyObject == [x \in {} |-> 0]
OkBodies(prompt) ==
    {[response |-> Echo(prompt)],
     [text |-> Echo(prompt)],
     [choices |-> <<[message |-> [content |-> Echo(prompt)]]>>],
     [choices |-> <<[message |-> [reasoning_content |-> Echo(prompt)]]>>],
     [choices |-> << >>],
     EmptyObject}
ErrorBodies(prompt) ==
    {[error |-> [message |-> <<"boom">>]],
     [response |-> Echo(prompt)],
     EmptyObject}
Replies(prompt) ==
    {[kind |-> "exc", type |-> "ClientConnectorError", msg |-> <<"refused">>],
     [kind |-> "exc", type |-> "TimeoutError", msg |-> << >>]}
    \cup {[kind |-> "reply", status |-> 200, json |-> FALSE, body |-> EmptyObject]}
    \cup {[kind |-> "reply", status |-> 200, json |-> TRUE, body |-> b] :
            b \in OkBodies(prompt)}
    \cup {[kind |-> "reply", status |-> 500, json |-> TRUE, body |-> b] :
            b \in ErrorBodies(prompt)}
NoReply == [kind |-> "none"]

\* dict.get(key, default)
Get(d, key, default) == IF key \in DOMAIN d THEN d[key] ELSE default

\* ---------------------------------------------------------------- responses

Response(success, text, error, agent_index) ==
    [success |-> success, text |-> text, error |-> error, agent_index |-> agent_index]
NoResponse == Response(FALSE, << >>, None, -1)

\* How a block of code ends: it returns a value or an exception leaves it.
Return(value) == [kind |-> "return", value |-> value]
Raise(type, msg) == [kind |-> "raise", type |-> type, msg |-> msg]

\* What `async with session.post(...) as resp:` and `await resp.json()` do
\* with what came back: the transport's exception, the exception of a body
\* that is not JSON, or the parsed body.
ReadJson(reply) ==
    IF reply.kind = "exc" THEN Raise(reply.type, reply.msg)
    ELSE IF ~reply.json THEN Raise("ContentTypeError", <<"unexpected mimetype">>)
    ELSE Return(reply.body)

\* The body of AgentPool.post's try block: any JSON object, whatever the
\* status, makes a successful Response.
GenerateTry(reply, agent_index) ==
    LET data == ReadJson(reply) IN
    IF data.kind = "raise" THEN data
    ELSE Return(Response(TRUE,
                         Get(data.value, "response", Get(data.value, "text", << >>)),
                         None, agent_index))

\* AgentPool.post's try / except Exception: the error is str(exc).
GenerateResponse(reply, agent_index) ==
    LET body == GenerateTry(reply, agent_index) IN
    IF body.kind = "raise"
    THEN Return(Response(FALSE, << >>, body.msg, agent_index))
    ELSE body

\* str(resp.status)
StatusStr(status) == IF status = 200 THEN "200" ELSE "500"

\* The body of VLLMPool.post's try block.
ChatTry(reply, agent_index) ==
    LET data == ReadJson(reply) IN
    IF data.kind = "raise" THEN data
    ELSE IF reply.status # 200
    THEN Return(Response(FALSE, << >>,
                         <<"API error: ">>
                            \o Get(Get(data.value, "error", EmptyObject), "message",
                                   <<"HTTP ", StatusStr(reply.status)>>),
                         agent_index))
    ELSE IF "choices" \notin DOMAIN data.value \/ data.value.choices = << >>
    THEN Return(Response(FALSE, << >>, <<"Invalid response structure">>, agent_index))
    ELSE LET message == data.value.choices[1].message
             content == Get(message, "content", << >>)
         IN  Return(Response(TRUE,
                             IF content # << >> THEN content
                             ELSE Get(message, "reasoning_content", << >>),
                             None, agent_index))

\* VLLMPool.post's try / except Exception: the error is
\* f"{type(exc).__name__}: {str(exc)}".
ChatResponse(reply, agent_index) ==
    LET body == ChatTry(reply, agent_index) IN
    IF body.kind = "raise"
    THEN Return(Response(FALSE, << >>, <<body.type, ": ">> \o body.msg, agent_index))
    ELSE body

\* ------------------------------------------------------------ the coroutine

\* The fallback of _get_model_max_context, and the max_model_len the tests'
\* mock /v1/models reports.
DefaultModelMaxContext == 131072
MockMaxModelLen == 8192

\* The least number of tokens the budget formula leaves for the answer.
MinTokens == 128

\* A post coroutine that has not run yet: gather wraps each one in a task and
\* the event loop starts it later.  call and pos name the gather it belongs to
\* (0: awaited on its own).  reply and done_at are history: what the HTTP call
\* handed back, and how many coroutines had ended before this one.
NewTask(p, agent_index, prompt, call, pos) ==
    [pool |-> p, agent_index |-> agent_index, prompt |-> prompt,
     call |-> call, pos |-> pos, pc |-> "new",
     session |-> NoSession, url |-> << >>, permit |-> 0, result |-> NoResponse,
     reply |-> NoReply, done_at |-> 0,
     max_tokens |-> 0, tokens |-> 0, model_max |-> 0, meta |-> ""]

\* len(prompt) of the prompts: the one-letter ones, a word, and two long texts
\* named by their lengths.
PromptLen(prompt) ==
    CASE prompt \in {"a", "b"} -> 1
      [] prompt = "abcd" -> 4
      [] prompt = "abcdefg" -> 7
      [] prompt = "p29001" -> 29001
      [] prompt = "p40000" -> 40000

\* prompt_est of VLLMPool.post
PromptEst(prompt) == PromptLen(prompt) \div 4

\* sum(len(p) for p in prompts)
RECURSIVE SumLen(_)
SumLen(prompts) ==
    IF prompts = << >> THEN 0 ELSE PromptLen(Head(prompts)) + SumLen(Tail(prompts))

\* prompt_est of VLLMPool.post_batch, from the average prompt length
BatchPromptEst(prompts) == (SumLen(prompts) \div Len(prompts)) \div 4

\* A max_model_len that /v1/models gave as a str rather than a number: the
\* lookup returns and caches whatever truthy value the entry holds.
TextMaxLen == -1

\* The TypeError of `model_max - prompt_est` when model_max is a str.
StrMinusInt ==
    [kind |-> "exc", type |-> "TypeError",
     msg |-> <<"unsupported operand type(s) for -: 'str' and 'int'">>]

\* tokens when the caller gave no max_tokens: the pool's default, capped by what
\* the context leaves after the prompt and the buffer but not below 128.
Budget(P, model_max, prompt_est) ==
    Min(P.max_tokens, Max(MinTokens, model_max - prompt_est - P.buffer))

\* The `if max_tokens is None: ... else: tokens = max_tokens` of post and
\* post_batch once the lookup returned model_max.  model_max and meta are
\* history: what the lookup returned to this call and how its GET ended.
WithTokens(tk, P, model_max, prompt_est) ==
    IF tk.max_tokens # 0 THEN [tk EXCEPT !.tokens = tk.max_tokens]
    ELSE [tk EXCEPT !.model_max = model_max,
                    !.tokens = Budget(P, model_max, prompt_est)]

\* post's try statement, of the pool's class.
AdapterResponse(cls, reply, agent_index) ==
    IF cls = "VLLMPool" THEN ChatResponse(reply, agent_index)
    ELSE GenerateResponse(reply, agent_index)

Ended == {t \in 1 .. Len(tasks) : tasks[t].pc \in {"done", "raised"}}

\* The exception leaves post or post_batch before the semaphore is reached.
RaiseBeforeGate(tk, exc) ==
    [tk EXCEPT !.pc = "raised", !.reply = exc, !.done_at = Cardinality(Ended)]

\* The coroutine ends with what its try statement came to: post returns the
\* Response, or the exception propagates to whoever awaits it.
EndWith(tk, reply) ==
    LET out == AdapterResponse(pools[tk.pool].cls, reply, tk.agent_index) IN
    [tk EXCEPT !.pc = IF out.kind = "return" THEN "done" ELSE "raised",
               !.permit = 0,
               !.result = IF out.kind = "return" THEN out.value ELSE NoResponse,
               !.reply = reply,
               !.done_at = Cardinality(Ended)]

\* The RuntimeError a closed ClientSession raises from session.post.
SessionClosed == [kind |-> "exc", type |-> "RuntimeError", msg |-> <<"Session is closed">>]

\* `async with self._semaphore:` followed by `session.post(...)`, up to the
\* first suspension: with no free permit the task waits; with one it takes it
\* and starts the HTTP call, unless its session is closed, in which case
\* session.post raises at once inside the try and the permit is freed again.
EnterGate(tk, sm, ss) ==
    LET sem == pools[tk.pool].semaphore IN
    IF sm[sem] = 0
    THEN [task |-> [tk EXCEPT !.pc = "wait"], sems |-> sm]
    ELSE IF ss[tk.session].closed
    THEN [task |-> EndWith(tk, SessionClosed), sems |-> sm]
    ELSE [task |-> [tk EXCEPT !.pc = "http", !.permit = sem],
          sems |-> [sm EXCEPT ![sem] = @ - 1]]

\* The URL of the task's prompt request: AgentPool.post goes through
\* _agent_base_url, VLLMPool.post builds it from the endpoint's own url.
PostUrl(P, agent_index) ==
    IF P.cls = "VLLMPool"
    THEN EpUrl(At(P.endpoints, agent_index)) \o <<"/v1/chat/completions">>
    ELSE AgentBaseUrl(P, agent_index) \o <<"/generate">>

\* VLLMPool._get_model_max_context up to its first suspension: "cached" when
\* the cache or the configuration answers (the configuration is then cached),
\* "fetch" when it has to GET /v1/models.
ModelMaxContextStep(P) ==
    IF P.model_max_context_cached # 0
    THEN [kind |-> "cached", pool |-> P]
    ELSE IF P.model_max_context # 0
    THEN [kind |-> "cached",
          pool |-> [P EXCEPT !.model_max_context_cached = P.model_max_context]]
    ELSE [kind |-> "fetch", pool |-> P]

\* post, from its first line to its first suspension.
PostBegin(t) ==
    /\ tasks[t].pc = "new"
    /\ LET tk == tasks[t]
           g == GetSession(pools, sessions, tk.pool)
           P == g.pools[tk.pool]
           m == ModelMaxContextStep(P)
           lookup == P.cls = "VLLMPool" /\ tk.max_tokens = 0
       IN  IF lookup /\ m.kind = "fetch"
           THEN \* session.get(f"{ep.url}/v1/models") is under way, outside the
                \* semaphore
                /\ pools' = g.pools
                /\ sessions' = g.sessions
                /\ tasks' = [tasks EXCEPT ![t] =
                        [tk EXCEPT !.pc = "meta", !.session = g.session,
                                   !.url = EpUrl(At(P.endpoints, 0)) \o <<"/v1/models">>]]
                /\ UNCHANGED sems
           ELSE LET ps == IF lookup
                          THEN [g.pools EXCEPT ![tk.pool] = m.pool] ELSE g.pools
                    model_max == m.pool.model_max_context_cached
                    b == IF P.cls = "VLLMPool"
                         THEN WithTokens(tk, P, model_max, PromptEst(tk.prompt))
                         ELSE tk
                    e == IF lookup /\ model_max = TextMaxLen
                         THEN [task |-> RaiseBeforeGate(
                                    [tk EXCEPT !.session = g.session,
                                               !.model_max = model_max], StrMinusInt),
                               sems |-> sems]
                         ELSE EnterGate([b EXCEPT !.session = g.session,
                                                  !.url = PostUrl(P, tk.agent_index)],
                                        sems, g.sessions)
                IN  /\ pools' = ps
                    /\ sessions' = g.sessions
                    /\ tasks' = [tasks EXCEPT ![t] = e.task]
                    /\ sems' = e.sems
    /\ UNCHANGED <<calls, raised, handlers, patterns>>

\* The GET /v1/models of _get_model_max_context ends: the matching model's
\* max_model_len is cached, or 131072 after any failure; post then goes on to
\* the semaphore.
MetaDone(t, found) ==
    /\ tasks[t].pc = "meta"
    /\ LET tk == tasks[t]
           model_max == IF found THEN MockMaxModelLen ELSE DefaultModelMaxContext
           b == WithTokens([tk EXCEPT !.meta = IF found THEN "found" ELSE "failed"],
                           pools[tk.pool], model_max, PromptEst(tk.prompt))
           e == EnterGate([b EXCEPT !.url = PostUrl(pools[tk.pool], tk.agent_index)],
                          sems, sessions)
       IN  /\ pools' = [pools EXCEPT ![tk.pool].model_max_context_cached = model_max]
           /\ tasks' = [tasks EXCEPT ![t] = e.task]
           /\ sems' = e.sems
    /\ UNCHANGED <<sessions, calls, raised, handlers, patterns>>

\* The GET /v1/models ends with an entry for the model whose max_model_len
\* is a str: `if max_len:` lets it through, it is cached and returned, and the
\* subtraction in post or post_batch raises TypeError outside every try.
MetaDoneText(t) ==
    /\ tasks[t].pc \in {"meta", "bmeta"}
    /\ pools' = [pools EXCEPT ![tasks[t].pool].model_max_context_cached = TextMaxLen]
    /\ tasks' = [tasks EXCEPT ![t] =
            RaiseBeforeGate([tasks[t] EXCEPT !.meta = "text", !.model_max = TextMaxLen],
                            StrMinusInt)]
    /\ UNCHANGED <<sessions, sems, calls, raised, handlers, patterns>>

\* A waiting task is woken with a permit free.
Acquire(t) ==
    /\ tasks[t].pc = "wait"
    /\ sems[pools[tasks[t].pool].semaphore] > 0
    /\ LET e == EnterGate(tasks[t], sems, sessions)
       IN  /\ tasks' = [tasks EXCEPT ![t] = e.task]
           /\ sems' = e.sems
    /\ UNCHANGED <<pools, sessions, calls, raised, handlers, patterns>>

\* The HTTP call of a prompt request ends with `reply`; the try statement
\* deals with it, both `async with` blocks exit and the permit goes back.
HttpDone(t, reply) ==
    /\ tasks[t].pc = "http"
    /\ tasks' = [tasks EXCEPT ![t] = EndWith(tasks[t], reply)]
    /\ sems' = [sems EXCEPT ![tasks[t].permit] = @ + 1]
    /\ UNCHANGED <<pools, sessions, calls, raised, handlers, patterns>>

\* `await pool.post(agent_index, prompt)` for a valid local index.
Send(p, agent_index, prompt) ==
    /\ agent_index \in 0 .. Size(pools[p]) - 1
    /\ tasks' = Append(tasks, NewTask(p, agent_index, prompt, 0, 0))
    /\ raised' = ""
    /\ UNCHANGED <<pools, sessions, sems, calls, handlers, patterns>>

\* `await pool.post(agent_index, prompt, max_tokens)` for a valid local index;
\* max_tokens 0 is None.
SendTokens(p, agent_index, prompt, max_tokens) ==
    /\ agent_index \in 0 .. Size(pools[p]) - 1
    /\ tasks' = Append(tasks,
            [NewTask(p, agent_index, prompt, 0, 0) EXCEPT !.max_tokens = max_tokens])
    /\ raised' = ""
    /\ UNCHANGED <<pools, sessions, sems, calls, handlers, patterns>>

\* ------------------------------------------------------------------- gather

\* A send_all that starts its round-robin one agent late.
SendAllTasksShifted(p, prompts, call) ==
    [k \in 1 .. Len(prompts) |->
        NewTask(p, k % Size(pools[p]), prompts[k], call, k)]

\* The coroutines send_all makes: prompts[i] goes to agent i % size.
SendAllTasks(p, prompts, call) ==
    [k \in 1 .. Len(prompts) |->
        NewTask(p, (k - 1) % Size(pools[p]), prompts[k], call, k)]

\* The coroutines broadcast_prompt makes: one per agent, in agent order.
BroadcastTasks(p, prompt, call) ==
    [k \in 1 .. Size(pools[p]) |-> NewTask(p, k - 1, prompt, call, k)]

\* A call that has built its coroutines and awaits asyncio.gather on them.
NewCall(op, p, prompts, n) ==
    [op |-> op, pool |-> p, prompts |-> prompts,
     first |-> Len(tasks) + 1, n |-> n, returned |-> FALSE, result |-> << >>]

\* AgentPool.send_all up to the await: `i % self.size` raises
\* ZeroDivisionError on an empty pool.
SendAll(p, prompts) ==
    /\ IF prompts # << >> /\ Size(pools[p]) = 0
       THEN /\ raised' = "ZeroDivisionError"
            /\ UNCHANGED <<tasks, calls>>
       ELSE /\ raised' = ""
            /\ tasks' = tasks \o SendAllTasks(p, prompts, Len(calls) + 1)
            /\ calls' = Append(calls, NewCall("send_all", p, prompts, Len(prompts)))
    /\ UNCHANGED <<pools, sessions, sems, handlers, patterns>>

\* AgentPool.broadcast_prompt up to the await.
BroadcastPrompt(p, prompt) ==
    /\ raised' = ""
    /\ tasks' = tasks \o BroadcastTasks(p, prompt, Len(calls) + 1)
    /\ calls' = Append(calls, NewCall("broadcast", p, <<prompt>>, Size(pools[p])))
    /\ UNCHANGED <<pools, sessions, sems, handlers, patterns>>

\* The results in the order the coroutines ended (asyncio.as_completed).
GatheredAsCompleted(c) ==
    LET mine == c.first .. c.first + c.n - 1
        Earlier(t) == {u \in mine : tasks[u].done_at < tasks[t].done_at}
    IN  [k \in 1 .. c.n |->
            tasks[CHOOSE t \in mine : Cardinality(Earlier(t)) = k - 1].result]

\* list(await asyncio.gather(*tasks)): the results in the order of the
\* awaitables, once every one of them is done.
Gathered(c) == [k \in 1 .. c.n |-> tasks[c.first + k - 1].result]

GatherReturn(c) ==
    /\ ~calls[c].returned
    /\ \A k \in 1 .. calls[c].n : tasks[calls[c].first + k - 1].pc = "done"
    /\ calls' = [calls EXCEPT ![c].returned = TRUE, ![c].result = Gathered(calls[c])]
    /\ UNCHANGED <<pools, sessions, sems, tasks, raised, handlers, patterns>>

\* --------------------------------------------------------------- tree_reduce

\* prompt.replace("{item}", str(it)): the leaf prompt of one item, kept as the
\* template and the item put into it.
LeafPrompt(prompt, it) == [template |-> prompt, item |-> it]

\* A supervisor prompt that names the first level in every round.
SupervisorPromptLevelOne(group, level) == [responses |-> group, level |-> 1]

\* The supervisor prompt of one group: reduce_prompt with {responses} replaced
\* by the group's texts joined with "\n---\n" and {level} by str(level), kept
\* as the texts and the level put into it.
SupervisorPrompt(group, level) == [responses |-> group, level |-> level]

\* The texts of all the responses, failed ones too.
AllTexts(responses) == [k \in 1 .. Len(responses) |-> responses[k].text]

\* [r.text for r in responses if r.success]
SuccessTexts(responses) ==
    LET ok == SelectSeq(responses, LAMBDA r : r.success)
    IN  [k \in 1 .. Len(ok) |-> ok[k].text]

\* A chunking that gives every response a group of its own.
GroupsOfOne(current, fanin) == [g \in 1 .. Len(current) |-> <<current[g]>>]

\* groups: current[i : i + fanin] for i in range(0, len(current), fanin), for a
\* fanin other than 0; a negative step makes the range empty.
Groups(current, fanin) ==
    IF fanin < 0 THEN << >>
    ELSE [g \in 1 .. (Len(current) + fanin - 1) \div fanin |->
            SubSeq(current, (g - 1) * fanin + 1, Min(g * fanin, Len(current)))]

\* A tree_reduce coroutine at its first line.  gathers is history: the calls
\* it made on the pool, the leaf phase first.
NewTree(p, prompt, fanin, items) ==
    [pool |-> p, prompt |-> prompt, fanin |-> fanin, items |-> items,
     pc |-> "await", level |-> 1, current |-> << >>, gathers |-> << >>,
     result |-> NoResponse, error |-> ""]

\* pool.send_all(prompts) or pool.broadcast_prompt(prompt) inside tree_reduce,
\* up to the await of asyncio.gather: the coroutines and the call.
TreeGather(p, op, prompts) ==
    [tasks |-> IF op = "broadcast" THEN BroadcastTasks(p, prompts[1], Len(calls) + 1)
               ELSE SendAllTasks(p, prompts, Len(calls) + 1),
     call |-> NewCall(op, p, prompts,
                      IF op = "broadcast" THEN Size(pools[p]) ELSE Len(prompts))]

\* tree_reduce(pool, prompt, reduce_prompt, fanin, items) up to the await of
\* its leaf phase; items is None or a list.  send_all computes i % size, which
\* raises ZeroDivisionError on an empty pool.
TreeReduce(p, prompt, fanin, items) ==
    /\ LET T == NewTree(p, prompt, fanin, items)
           op == IF items # None THEN "send_all" ELSE "broadcast"
           leaf_prompts == IF items # None
                           THEN [k \in 1 .. Len(items) |-> LeafPrompt(prompt, items[k])]
                           ELSE <<prompt>>
       IN  IF items # None /\ items # << >> /\ Size(pools[p]) = 0
           THEN /\ patterns' = Append(patterns, [T EXCEPT !.pc = "raised",
                                                     !.error = "ZeroDivisionError"])
                /\ UNCHANGED <<tasks, calls>>
           ELSE LET g == TreeGather(p, op, leaf_prompts)
                IN  /\ tasks' = tasks \o g.tasks
                    /\ calls' = Append(calls, g.call)
                    /\ patterns' = Append(patterns, [T EXCEPT !.gathers = <<Len(calls) + 1>>])
    /\ UNCHANGED <<pools, sessions, sems, raised, handlers>>

\* The gather tree_reduce awaits is over: with an exception, which leaves
\* tree_reduce, or with the responses.  The successes' texts become current;
\* while there are more than one they are chunked and sent to supervisors
\* (range() raises ValueError for a fanin of 0), else tree_reduce returns.
TreeResume(h) ==
    /\ patterns[h].pc = "await"
    /\ LET T == patterns[h]
           c == T.gathers[Len(T.gathers)]
           mine == calls[c].first .. calls[c].first + calls[c].n - 1
           responses == Gathered(calls[c])
           current == SuccessTexts(responses)
           level == IF Len(T.gathers) > 1 THEN T.level + 1 ELSE T.level
           returned == [calls EXCEPT ![c].returned = TRUE, ![c].result = responses]
           supervisor_prompts ==
                LET groups == Groups(current, T.fanin)
                IN  [g \in 1 .. Len(groups) |-> SupervisorPrompt(groups[g], level)]
           g == TreeGather(T.pool, "send_all", supervisor_prompts)
       IN  IF \E t \in mine : tasks[t].pc = "raised"
           THEN /\ patterns' = [patterns EXCEPT ![h] = [T EXCEPT !.pc = "raised",
                                                            !.error = "gather"]]
                /\ UNCHANGED <<tasks, calls>>
           ELSE /\ \A t \in mine : tasks[t].pc = "done"
                /\ IF Len(current) > 1 /\ T.fanin = 0
                   THEN /\ patterns' = [patterns EXCEPT ![h] =
                              [T EXCEPT !.pc = "raised", !.error = "ValueError",
                                        !.level = level, !.current = current]]
                        /\ calls' = returned
                        /\ UNCHANGED tasks
                   ELSE IF Len(current) > 1
                   THEN /\ level <= MaxLevels
                        /\ patterns' = [patterns EXCEPT ![h] =
                              [T EXCEPT !.level = level, !.current = current,
                                        !.gathers = Append(@, Len(calls) + 1)]]
                        /\ calls' = Append(returned, g.call)
                        /\ tasks' = tasks \o g.tasks
                   ELSE /\ patterns' = [patterns EXCEPT ![h] =
                              [T EXCEPT !.pc = "done", !.level = level,
                                        !.current = current,
                                        !.result =
                                          IF current = << >>
                                          THEN Response(FALSE, << >>,
                                                  <<"All agents failed during reduction">>, -1)
                                          ELSE Response(TRUE, current[1], None, -1)]]
                        /\ calls' = returned
                        /\ UNCHANGED tasks
    /\ UNCHANGED <<pools, sessions, sems, raised, handlers>>

\* -------------------------------------------------------------- run_pipeline

\* Stage(name, prompt_template, n_agents, output_transform, output_filter); the
\* two callables are named by what they compute, "None" when not given.
Stage(name, prompt_template, n_agents, output_transform, output_filter) ==
    [name |-> name, prompt_template |-> prompt_template, n_agents |-> n_agents,
     output_transform |-> output_transform, output_filter |-> output_filter]

\* template.replace(old, new) on a template of tokens: every token equal to
\* old gives way to the tokens of new.
RECURSIVE Replace(_, _, _)
Replace(template, old, new) ==
    IF template = << >> THEN << >>
    ELSE (IF Head(template) = old THEN new ELSE <<Head(template)>>)
            \o Replace(Tail(template), old, new)

\* sep.join(texts)
RECURSIVE Join(_, _)
Join(sep, texts) ==
    IF texts = << >> THEN << >>
    ELSE IF Len(texts) = 1 THEN texts[1]
    ELSE texts[1] \o sep \o Join(sep, Tail(texts))

\* _default_transform: "\n".join(r.text for r in responses if r.success)
DefaultTransform(responses) == Join(<<"\n">>, SuccessTexts(responses))

\* A stage that lets every response through, whatever its output_filter.
FilteredNone(stage, responses) == responses

\* [r for r in responses if stage.output_filter(r)] when a filter is given; the
\* filter of the tests keeps r.success.
Filtered(stage, responses) ==
    IF stage.output_filter = "None" THEN responses
    ELSE SelectSeq(responses, LAMBDA r : r.success)

\* transform(responses) with stage.output_transform or _default_transform; the
\* transform given here is str(len(responses)).
Transformed(stage, responses) ==
    IF stage.output_transform = "None" THEN DefaultTransform(responses)
    ELSE <<Str(Len(responses))>>

\* A stage pool that is always the first agents of the pool.
StagePoolPrefix(P, stage, offset, reuse_agents) ==
    LET end == Min(stage.n_agents, Size(P))
    IN  [endpoints |-> PySlice(P.endpoints, 0, end),
         global_indices |-> PySlice(P.global_indices, 0, end),
         offset |-> offset]

\* The endpoints and global indices run_pipeline hands to _sub_pool for one
\* stage, and the offset it goes on with: pool.select(list(range(min(n_agents,
\* size)))), or pool.slice(offset, end) with end = min(offset + n_agents, size).
StagePool(P, stage, offset, reuse_agents) ==
    IF reuse_agents
    THEN LET m == Max(0, Min(stage.n_agents, Size(P)))
             pick == Picked(P, [k \in 1 .. m |-> k - 1])
         IN  [endpoints |-> pick.endpoints, global_indices |-> pick.global_indices,
              offset |-> offset]
    ELSE LET end == Min(offset + stage.n_agents, Size(P))
         IN  [endpoints |-> PySlice(P.endpoints, offset, end),
              global_indices |-> PySlice(P.global_indices, offset, end),
              offset |-> end]

\* A run_pipeline coroutine at its first line.  gathers and windows are
\* history: the broadcast of each stage so far and the pool it went to.
NewPipeline(p, stages, initial_input, reuse_agents) ==
    [pool |-> p, stages |-> stages, initial_input |-> initial_input,
     reuse_agents |-> reuse_agents, pc |-> "await", current_input |-> initial_input,
     offset |-> 0, gathers |-> << >>, windows |-> << >>,
     result |-> << >>, error |-> ""]

\* run_pipeline from the top of its loop to the next await, or to its return:
\* the pattern, pools, tasks and calls it leaves.  select and slice go through
\* _sub_pool, which raises TypeError on a VLLMPool.
PipelineLoop(L, cs) ==
    LET k == Len(L.gathers) + 1
        stage == L.stages[k]
        P == pools[L.pool]
        sp == StagePool(P, stage, L.offset, L.reuse_agents)
        stage_pool == SubPoolChild(P, sp.endpoints, sp.global_indices)
                        @@ [derived_from |-> L.pool]
        prompt == Replace(stage.prompt_template, "{input}", L.current_input)
        c == Len(cs) + 1
    IN  IF k > Len(L.stages)
        THEN [pattern |-> [L EXCEPT !.pc = "done", !.result = L.current_input],
              pools |-> pools, tasks |-> tasks, calls |-> cs]
        ELSE IF P.cls = "VLLMPool"
        THEN [pattern |-> [L EXCEPT !.pc = "raised", !.error = "TypeError"],
              pools |-> pools, tasks |-> tasks, calls |-> cs]
        ELSE [pattern |-> [L EXCEPT !.offset = sp.offset,
                                    !.gathers = Append(@, c),
                                    !.windows = Append(@, Len(pools) + 1)],
              pools |-> Append(pools, stage_pool),
              tasks |-> tasks \o [j \in 1 .. Size(stage_pool) |->
                                    NewTask(Len(pools) + 1, j - 1, prompt, c, j)],
              calls |-> Append(cs, NewCall("broadcast", Len(pools) + 1, <<prompt>>,
                                           Size(stage_pool)))]

\* run_pipeline(pool, stages, initial_input, reuse_agents) up to the await of
\* its first stage, or to its return when there is no stage.
RunPipeline(p, stages, initial_input, reuse_agents) ==
    /\ LET n == PipelineLoop(NewPipeline(p, stages, initial_input, reuse_agents), calls)
       IN  /\ patterns' = Append(patterns, n.pattern)
           /\ pools' = n.pools
           /\ tasks' = n.tasks
           /\ calls' = n.calls
    /\ UNCHANGED <<sessions, sems, raised, handlers>>

\* The broadcast a stage awaits is over: its responses are filtered and
\* transformed into current_input, and the loop goes on with the next stage.
PipelineResume(h) ==
    /\ patterns[h].pc = "await"
    /\ LET L == patterns[h]
           c == L.gathers[Len(L.gathers)]
           stage == L.stages[Len(L.gathers)]
           mine == calls[c].first .. calls[c].first + calls[c].n - 1
           responses == Gathered(calls[c])
           returned == [calls EXCEPT ![c].returned = TRUE, ![c].result = responses]
           current_input == Transformed(stage, Filtered(stage, responses))
           n == PipelineLoop([L EXCEPT !.current_input = current_input], returned)
       IN  IF \E t \in mine : tasks[t].pc = "raised"
           THEN /\ patterns' = [patterns EXCEPT ![h] = [L EXCEPT !.pc = "raised",
                                                            !.error = "gather"]]
                /\ UNCHANGED <<pools, tasks, calls>>
           ELSE /\ \A t \in mine : tasks[t].pc = "done"
                /\ patterns' = [patterns EXCEPT ![h] = n.pattern]
                /\ pools' = n.pools
                /\ tasks' = n.tasks
                /\ calls' = n.calls
    /\ UNCHANGED <<sessions, sems, raised, handlers>>

\* ---------------------------------------------------------------- Blackboard

\* {section: [] for section in sections}: a dict keeps one entry per key, at
\* the place of the key's first occurrence.  The board is the dict's items in
\* insertion order.
RECURSIVE EmptyBoard(_)
EmptyBoard(sections) ==
    IF sections = << >> THEN << >>
    ELSE LET rest == EmptyBoard(SubSeq(sections, 1, Len(sections) - 1))
             last == sections[Len(sections)]
         IN  IF \E k \in 1 .. Len(rest) : rest[k].section = last THEN rest
             ELSE Append(rest, [section |-> last, entries |-> << >>])

\* sum(len(v) for v in board.values())
RECURSIVE Total(_)
Total(board) ==
    IF board = << >> THEN 0 ELSE Len(Head(board).entries) + Total(Tail(board))

\* str(n) for a non-negative integer, digit by digit.
RECURSIVE Decimal(_)
Decimal(n) == IF n < 10 THEN <<Str(n)>> ELSE Decimal(n \div 10) \o <<Str(n % 10)>>

\* A prompt function that shows an empty board whatever the board holds.
PromptFnEmptyBoard(role, board) ==
    <<"You are a ", role, ". Board has ", "0", " entries. Contribute.">>

\* The tests' _prompt_fn(role, board).
PromptFn(role, board) ==
    <<"You are a ", role, ". Board has ">> \o Decimal(Total(board))
        \o <<" entries. Contribute.">>

\* A convergence test that never stops the session.
NeverConverged(convergence_fn, board) == FALSE

\* `convergence_fn is not None and convergence_fn(self._board)`; the tests'
\* function compares the number of entries with a threshold, 0 stands for None.
Converged(convergence_fn, board) ==
    convergence_fn # 0 /\ Total(board) >= convergence_fn

\* An append of the texts of all the responses, failed ones too.
AppendedAll(board, section, responses) ==
    [k \in 1 .. Len(board) |->
        IF board[k].section = section
        THEN [board[k] EXCEPT !.entries = @ \o AllTexts(responses)]
        ELSE board[k]]

\* self._board[section].append(r.text) for the successful responses, in the
\* order of the responses.
Appended(board, section, responses) ==
    [k \in 1 .. Len(board) |->
        IF board[k].section = section
        THEN [board[k] EXCEPT !.entries = @ \o SuccessTexts(responses)]
        ELSE board[k]]

\* Blackboard.__init__.  The run's locals follow the object's fields (i counts
\* the iterations of `for _ in range(max_rounds)` that are over, s is the
\* position of the section at hand); runs, base, gathers and evals are
\* history: the number of runs, the value of _round when the run began, the
\* broadcasts made, each with its section and the round it was made in, and
\* the value of _round at each evaluation of convergence_fn with the
\* broadcasts made by then, the run, and the answer.
NewBlackboard(sections) ==
    [_board |-> EmptyBoard(sections), _round |-> 0, pc |-> "idle",
     pool |-> 0, sections |-> << >>, max_rounds |-> 0, convergence_fn |-> 0,
     i |-> 0, s |-> 0, runs |-> 0, base |-> 0,
     gathers |-> << >>, evals |-> << >>, error |-> ""]

\* Blackboard(sections, prompt_fn)
BlackboardInit(sections) ==
    /\ patterns' = Append(patterns, NewBlackboard(sections))
    /\ UNCHANGED <<pools, sessions, sems, tasks, calls, raised, handlers>>

\* Blackboard.run from the section at position B.s of round B.i to its next
\* await, or to its return: the pattern, pools, tasks and calls it leaves.
\* by_tag makes a pool for every section it comes to, and raises TypeError on
\* a VLLMPool; a section without agents is skipped; at the end of a round
\* _round is incremented and then convergence_fn is asked.
RECURSIVE BoardLoop(_, _, _)
BoardLoop(B, ps, cs) ==
    IF B.i >= B.max_rounds
    THEN [pattern |-> [B EXCEPT !.pc = "done"], pools |-> ps, tasks |-> tasks, calls |-> cs]
    ELSE IF B.s > Len(B.sections)
    THEN LET stop == Converged(B.convergence_fn, B._board)
             E == [B EXCEPT !._round = @ + 1, !.i = @ + 1, !.s = 1,
                            !.evals = IF B.convergence_fn = 0 THEN @
                                      ELSE Append(@, [round |-> B._round + 1,
                                                      gathers |-> Len(B.gathers),
                                                      run |-> B.runs,
                                                      stop |-> stop])]
         IN  IF stop
             THEN [pattern |-> [E EXCEPT !.pc = "done"],
                   pools |-> ps, tasks |-> tasks, calls |-> cs]
             ELSE BoardLoop(E, ps, cs)
    ELSE IF ps[B.pool].cls = "VLLMPool"
    THEN [pattern |-> [B EXCEPT !.pc = "raised", !.error = "TypeError"],
          pools |-> ps, tasks |-> tasks, calls |-> cs]
    ELSE LET section == B.sections[B.s]
             pick == Picked(ps[B.pool], TagMatches(ps[B.pool], "role", section, 0))
             sub == SubPoolChild(ps[B.pool], pick.endpoints, pick.global_indices)
                        @@ [derived_from |-> B.pool]
             prompt == PromptFn(section, B._board)
             c == Len(cs) + 1
         IN  IF Size(sub) = 0
             THEN BoardLoop([B EXCEPT !.s = @ + 1], Append(ps, sub), cs)
             ELSE [pattern |-> [B EXCEPT !.pc = "await",
                                         !.gathers = Append(@, [call |-> c,
                                                                section |-> section,
                                                                round |-> B._round])],
                   pools |-> Append(ps, sub),
                   tasks |-> tasks \o [j \in 1 .. Size(sub) |->
                                          NewTask(Len(ps) + 1, j - 1, prompt, c, j)],
                   calls |-> Append(cs, NewCall("broadcast", Len(ps) + 1, <<prompt>>,
                                                Size(sub)))]

\* bb.run(pool, max_rounds, convergence_fn) on a blackboard that is not
\* running, up to its first await or to its return.
BoardRun(h, p, max_rounds, convergence_fn) ==
    /\ patterns[h].pc \in {"idle", "done"}
    /\ LET B == [patterns[h] EXCEPT !.pool = p, !.max_rounds = max_rounds,
                                    !.convergence_fn = convergence_fn,
                                    !.sections = [k \in 1 .. Len(patterns[h]._board) |->
                                                    patterns[h]._board[k].section],
                                    !.i = 0, !.s = 1, !.runs = @ + 1,
                                    !.base = patterns[h]._round]
           n == BoardLoop(B, pools, calls)
       IN  /\ patterns' = [patterns EXCEPT ![h] = n.pattern]
           /\ pools' = n.pools
           /\ tasks' = n.tasks
           /\ calls' = n.calls
    /\ UNCHANGED <<sessions, sems, raised, handlers>>

\* The broadcast of a section is over: the successful texts are appended to
\* the section, and the run goes on with the next section.
BoardResume(h) ==
    /\ patterns[h].pc = "await"
    /\ LET B == patterns[h]
           c == B.gathers[Len(B.gathers)].call
           mine == calls[c].first .. calls[c].first + calls[c].n - 1
           responses == Gathered(calls[c])
           returned == [calls EXCEPT ![c].returned = TRUE, ![c].result = responses]
           n == BoardLoop([B EXCEPT !._board = Appended(@, B.sections[B.s], responses),
                                    !.s = @ + 1],
                          pools, returned)
       IN  IF \E t \in mine : tasks[t].pc = "raised"
           THEN /\ patterns' = [patterns EXCEPT ![h] = [B EXCEPT !.pc = "raised",
                                                            !.error = "gather"]]
                /\ UNCHANGED <<pools, tasks, calls>>
           ELSE /\ \A t \in mine : tasks[t].pc = "done"
                /\ patterns' = [patterns EXCEPT ![h] = n.pattern]
                /\ pools' = n.pools
                /\ tasks' = n.tasks
                /\ calls' = n.calls
    /\ UNCHANGED <<sessions, sems, raised, handlers>>

\* ------------------------------------------------------- batched dispatch

\* What the completions backend hands back to one batched request: an
\* exception of the OpenAI client, or a completion whose choices are, in order,
\* the answers to the prompts: one per prompt, one too few, or one too many.
Completion(prompt) == <<"completion: ", prompt>>
FullChoices(prompts) == [k \in 1 .. Len(prompts) |-> [text |-> Completion(prompts[k])]]
BatchReplies(prompts) ==
    {[kind |-> "exc", type |-> "APIConnectionError", msg |-> <<"Connection error.">>],
     [kind |-> "exc", type |-> "APITimeoutError", msg |-> <<"Request timed out.">>]}
    \cup {[kind |-> "reply", choices |-> c] :
            c \in {FullChoices(prompts),
                   SubSeq(FullChoices(prompts), 1, Len(prompts) - 1),
                   FullChoices(prompts) \o <<[text |-> Completion(prompts[Len(prompts)])]>>}}

\* An except clause of post_batch that answers with a single failed Response.
BatchFailuresOnce(type, msg, agent_index, prompts) ==
    <<Response(FALSE, << >>, <<type, ": ">> \o msg, agent_index)>>

\* post_batch's except clause: one failed Response per prompt, all with the
\* error f"{type(exc).__name__}: {str(exc)}".
BatchFailures(type, msg, agent_index, prompts) ==
    [k \in 1 .. Len(prompts) |->
        Response(FALSE, << >>, <<type, ": ">> \o msg, agent_index)]

\* post_batch's try statement: one successful Response per choice of the
\* completion, in the order of the choices.
PostBatchResponses(reply, agent_index, prompts) ==
    IF reply.kind = "exc"
    THEN BatchFailures(reply.type, reply.msg, agent_index, prompts)
    ELSE [k \in 1 .. Len(reply.choices) |->
            Response(TRUE, reply.choices[k].text, None, agent_index)]

\* A post_batch coroutine that has not run yet.  positions are the places its
\* prompts had in send_all_batched's input (empty for a direct call);
\* max_tokens 0 is None.
NewBatchTask(p, agent_index, prompts, positions, max_tokens, call, pos) ==
    [NewTask(p, agent_index, << >>, call, pos) EXCEPT
        !.pc = "bnew", !.max_tokens = max_tokens]
        @@ [prompts |-> prompts, positions |-> positions, results |-> << >>]

\* `async with self._semaphore:` of post_batch up to the await of
\* client.completions.create.
BatchEnterGate(tk, sm) ==
    LET sem == pools[tk.pool].semaphore
        url == EpUrl(At(pools[tk.pool].endpoints, tk.agent_index))
                    \o <<"/v1", "/completions">>
    IN  IF sm[sem] = 0
        THEN [task |-> [tk EXCEPT !.pc = "bwait", !.url = url], sems |-> sm]
        ELSE [task |-> [tk EXCEPT !.pc = "bhttp", !.url = url, !.permit = sem],
              sems |-> [sm EXCEPT ![sem] = @ - 1]]

\* post_batch, from its first line to its first suspension.
BatchBegin(t) ==
    /\ tasks[t].pc = "bnew"
    /\ LET tk == tasks[t]
           P == pools[tk.pool]
           m == ModelMaxContextStep(P)
           g == GetSession(pools, sessions, tk.pool)
       IN  IF tk.prompts = << >>
           THEN /\ tasks' = [tasks EXCEPT ![t] =
                        [tk EXCEPT !.pc = "done", !.done_at = Cardinality(Ended)]]
                /\ UNCHANGED <<pools, sessions, sems>>
           ELSE IF tk.max_tokens = 0 /\ m.kind = "fetch"
           THEN /\ pools' = g.pools
                /\ sessions' = g.sessions
                /\ tasks' = [tasks EXCEPT ![t] =
                        [tk EXCEPT !.pc = "bmeta", !.session = g.session,
                                   !.url = EpUrl(At(P.endpoints, 0)) \o <<"/v1/models">>]]
                /\ UNCHANGED sems
           ELSE LET model_max == m.pool.model_max_context_cached
                    b == WithTokens(tk, P, model_max, BatchPromptEst(tk.prompts))
                    e == IF tk.max_tokens = 0 /\ model_max = TextMaxLen
                         THEN [task |-> RaiseBeforeGate(
                                    [tk EXCEPT !.model_max = model_max], StrMinusInt),
                               sems |-> sems]
                         ELSE BatchEnterGate(b, sems)
                IN  /\ pools' = IF tk.max_tokens = 0
                                THEN [pools EXCEPT ![tk.pool] = m.pool] ELSE pools
                    /\ tasks' = [tasks EXCEPT ![t] = e.task]
                    /\ sems' = e.sems
                    /\ UNCHANGED sessions
    /\ UNCHANGED <<calls, raised, handlers, patterns>>

\* The GET /v1/models that post_batch awaited ends; post_batch goes on to the
\* semaphore.
BatchMetaDone(t, found) ==
    /\ tasks[t].pc = "bmeta"
    /\ LET tk == tasks[t]
           model_max == IF found THEN MockMaxModelLen ELSE DefaultModelMaxContext
           b == WithTokens([tk EXCEPT !.meta = IF found THEN "found" ELSE "failed"],
                           pools[tk.pool], model_max, BatchPromptEst(tk.prompts))
           e == BatchEnterGate(b, sems)
       IN  /\ pools' = [pools EXCEPT ![tk.pool].model_max_context_cached = model_max]
           /\ tasks' = [tasks EXCEPT ![t] = e.task]
           /\ sems' = e.sems
    /\ UNCHANGED <<sessions, calls, raised, handlers, patterns>>

\* A waiting post_batch is woken with a permit free.
BatchAcquire(t) ==
    /\ tasks[t].pc = "bwait"
    /\ sems[pools[tasks[t].pool].semaphore] > 0
    /\ LET e == BatchEnterGate(tasks[t], sems)
       IN  /\ tasks' = [tasks EXCEPT ![t] = e.task]
           /\ sems' = e.sems
    /\ UNCHANGED <<pools, sessions, calls, raised, handlers, patterns>>

\* client.completions.create ends with `reply`: post_batch returns its list and
\* the permit goes back.  Inside send_all_batched the awaiting send_group then
\* pairs items[j] with responses[j] for every j, which raises IndexError when
\* there are fewer responses than items.
BatchHttpDone(t, reply) ==
    /\ tasks[t].pc = "bhttp"
    /\ LET tk == tasks[t]
           responses == PostBatchResponses(reply, tk.agent_index, tk.prompts)
       IN  tasks' = [tasks EXCEPT ![t] =
                [tk EXCEPT !.pc = IF tk.call # 0 /\ Len(responses) < Len(tk.prompts)
                                  THEN "raised" ELSE "done",
                           !.permit = 0,
                           !.results = responses,
                           !.reply = reply,
                           !.done_at = Cardinality(Ended)]]
    /\ sems' = [sems EXCEPT ![tasks[t].permit] = @ + 1]
    /\ UNCHANGED <<pools, sessions, calls, raised, handlers, patterns>>

\* `await pool.post_batch(agent_index, prompts, max_tokens)` for a valid index.
PostBatch(p, agent_index, prompts, max_tokens) ==
    /\ agent_index \in 0 .. Size(pools[p]) - 1
    /\ tasks' = Append(tasks,
                       NewBatchTask(p, agent_index, prompts, << >>, max_tokens, 0, 0))
    /\ raised' = ""
    /\ UNCHANGED <<pools, sessions, sems, calls, handlers, patterns>>

\* The input positions send_all_batched puts into the group of agent a.
GroupPositions(n, size, a) ==
    LET InGroup(i) == i % size = a
    IN  SelectSeq([i \in 1 .. n |-> i - 1], InGroup)

\* The send_group coroutines of send_all_batched: one per targeted agent, in
\* the order the agents first appear in the round-robin.
BatchTasks(p, prompts, max_tokens, call) ==
    [k \in 1 .. Min(Size(pools[p]), Len(prompts)) |->
        LET positions == GroupPositions(Len(prompts), Size(pools[p]), k - 1)
        IN  NewBatchTask(p, k - 1,
                         [j \in 1 .. Len(positions) |-> prompts[positions[j] + 1]],
                         positions, max_tokens, call, k)]

\* VLLMPool.send_all_batched up to the await of gather: with the flag off or no
\* prompts it is send_all(prompts), which makes one post per prompt and drops
\* max_tokens.
SendAllBatched(p, prompts, max_tokens) ==
    /\ IF prompts # << >> /\ Size(pools[p]) = 0
       THEN /\ raised' = "ZeroDivisionError"
            /\ UNCHANGED <<tasks, calls>>
       ELSE IF ~pools[p].use_batch \/ prompts = << >>
       THEN /\ raised' = ""
            /\ tasks' = tasks \o SendAllTasks(p, prompts, Len(calls) + 1)
            /\ calls' = Append(calls,
                    NewCall("send_all_batched", p, prompts, Len(prompts))
                        @@ [batched |-> FALSE, raised |-> ""])
       ELSE /\ raised' = ""
            /\ tasks' = tasks \o BatchTasks(p, prompts, max_tokens, Len(calls) + 1)
            /\ calls' = Append(calls,
                    NewCall("send_all_batched", p, prompts,
                            Min(Size(pools[p]), Len(prompts)))
                        @@ [batched |-> TRUE, raised |-> ""])
    /\ UNCHANGED <<pools, sessions, sems, handlers, patterns>>

\* What send_group returns: (original index, response) for each of its items.
GroupPairs(tk) ==
    [j \in 1 .. Len(tk.positions) |-> [index |-> tk.positions[j], resp |-> tk.results[j]]]

\* The lists gather returned, flattened in the order of the awaitables.
RECURSIVE Flattened(_, _)
Flattened(c, k) ==
    IF k > c.n THEN << >>
    ELSE GroupPairs(tasks[c.first + k - 1]) \o Flattened(c, k + 1)

\* list.sort(key=lambda x: x[0]): a stable sort by the original index.
SortedByIndex(pairs) ==
    LET Before(i) == {j \in 1 .. Len(pairs) :
                        \/ pairs[j].index < pairs[i].index
                        \/ pairs[j].index = pairs[i].index /\ j < i}
    IN  [k \in 1 .. Len(pairs) |->
            pairs[CHOOSE i \in 1 .. Len(pairs) : Cardinality(Before(i)) = k - 1]]

\* send_all_batched after gather: flatten, sort by original index, keep the
\* responses.
BatchGathered(c) ==
    LET sorted == SortedByIndex(Flattened(c, 1))
    IN  [k \in 1 .. Len(sorted) |-> sorted[k].resp]

\* gather has every send_group's list, and send_all_batched returns.
BatchGatherReturn(c) ==
    /\ calls[c].batched /\ ~calls[c].returned /\ calls[c].raised = ""
    /\ \A k \in 1 .. calls[c].n : tasks[calls[c].first + k - 1].pc = "done"
    /\ calls' = [calls EXCEPT ![c].returned = TRUE, ![c].result = BatchGathered(calls[c])]
    /\ UNCHANGED <<pools, sessions, sems, tasks, raised, handlers, patterns>>

\* A send_group raised: gather hands its IndexError to send_all_batched, which
\* lets it out; the other send_groups go on.
BatchGatherRaise(c) ==
    /\ calls[c].batched /\ ~calls[c].returned /\ calls[c].raised = ""
    /\ \E k \in 1 .. calls[c].n : tasks[calls[c].first + k - 1].pc = "raised"
    /\ calls' = [calls EXCEPT ![c].raised = "IndexError"]
    /\ UNCHANGED <<pools, sessions, sems, tasks, raised, handlers, patterns>>

\* -------------------------------------------------------------- task abort

\* An abort that leaves the semaphore as it is.
ReleaseOnAbortNever(tk, sm) == sm

\* What the exit of `async with self._semaphore:` does to the semaphore when
\* CancelledError passes through it: the permit the task holds goes back.  A
\* task that is not inside the block (not started, awaiting the metadata
\* lookup, or still waiting in acquire) holds none.
ReleaseOnAbort(tk, sm) ==
    IF tk.permit # 0 THEN [sm EXCEPT ![tk.permit] = @ + 1] ELSE sm

\* task.cancel() on a post or post_batch that has not ended: CancelledError is
\* raised at the await the coroutine is suspended in.  It is not an Exception,
\* so no except clause of post catches it and it leaves the coroutine.  reply
\* keeps, as history, where the coroutine was.
Cancel(t) ==
    /\ tasks[t].pc \in {"new", "meta", "wait", "http", "bnew", "bmeta", "bwait", "bhttp"}
    /\ tasks' = [tasks EXCEPT ![t] =
            [@ EXCEPT !.pc = "cancelled", !.permit = 0,
                      !.reply = [kind |-> "cancel", at |-> tasks[t].pc]]]
    /\ sems' = ReleaseOnAbort(tasks[t], sems)
    /\ UNCHANGED <<pools, sessions, calls, raised, handlers, patterns>>

\* ------------------------------------------------------------------- inputs

ProxyParams == {None, << >>, <<"http://proxy:9090">>, <<"http://proxy:9090", "/">>}
ProxyEnvs == {None, <<"http://env-proxy:9090", "/", "/">>}
Prompts == {"a", "b"}
TagKeys == {"role", "node"}
TagValues == {"worker", "critic"}

\* Sequences over S of length at most n.
SeqsUpTo(S, n) == UNION {[1 .. k -> S] : k \in 0 .. n}

\* A pool family right after its root was constructed.
RootOf(P, concurrency) ==
    /\ pools = <<P @@ [derived_from |-> 0]>>
    /\ sessions = << >>
    /\ sems = <<concurrency>>
    /\ tasks = << >>
    /\ calls = << >>
    /\ raised = ""
    /\ handlers = << >>
    /\ patterns = << >>

Roots(sizes, concurrencies, params, envs, contexts) ==
    {[pool |-> AgentPoolInit(n, c, param, env), concurrency |-> c] :
        n \in sizes, c \in concurrencies, param \in params, env \in envs}
    \cup
    {[pool |-> VLLMPoolInit(n, c, env, ctx), concurrency |-> c] :
        n \in sizes, c \in concurrencies, env \in envs, ctx \in contexts}

\* ----------------------------------------------- Spec: a family and its requests

\* One successful and one failed outcome of a prompt request.
TwoReplies(prompt) ==
    {[kind |-> "exc", type |-> "ClientConnectorError", msg |-> <<"refused">>],
     [kind |-> "reply", status |-> 200, json |-> TRUE,
      body |-> [response |-> Echo(prompt),
                choices |-> <<[message |-> [content |-> Echo(prompt)]]>>]]}

\* A root of FamilyAgents endpoints, every concurrency, with and without a
\* proxy, a chat pool with and without a configured context length.
Init ==
    \E r \in Roots({FamilyAgents}, 1 .. MaxConcurrency, {None},
                   {None, <<"http://env-proxy:9090", "/">>}, {0, MockMaxModelLen}) :
        RootOf(r.pool, r.concurrency)

PoolIds == 1 .. Len(pools)
TaskIds == 1 .. Len(tasks)
LocalIndices(p) == 0 .. Size(pools[p]) - 1

\* A selector may make one more subpool of an AgentPool of the family.
CanDerive(p) == Len(pools) < FamilyPools /\ pools[p].cls = "AgentPool"

Next ==
    \/ \E p \in PoolIds, key \in TagKeys, value \in TagValues :
            CanDerive(p) /\ ByTag(p, key, value)
    \/ \E p \in PoolIds :
            \E chosen \in SeqsUpTo(LocalIndices(p), Size(pools[p])) :
                CanDerive(p) /\ Sample(p, Len(chosen), chosen)
    \/ \E p \in PoolIds :
            \E indices \in SeqsUpTo(LocalIndices(p), 2) :
                CanDerive(p) /\ Select(p, indices)
    \/ \E p \in PoolIds :
            \E start, stop \in 0 .. Size(pools[p]) :
                CanDerive(p) /\ Slice(p, start, stop)
    \/ \E p \in PoolIds :
            \E i \in LocalIndices(p) : Len(tasks) < MaxTasks /\ Send(p, i, "a")
    \/ \E p \in PoolIds : Close(p)
    \/ \E t \in TaskIds : PostBegin(t)
    \/ \E t \in TaskIds, found \in BOOLEAN : MetaDone(t, found)
    \/ \E t \in TaskIds : Acquire(t)
    \/ \E t \in TaskIds : \E reply \in TwoReplies(tasks[t].prompt) : HttpDone(t, reply)

Spec == Init /\ [][Next]_vars

\* ------------------------------------ SpecSend: single requests, every reply

\* Requests of the root pool alone, each ending with any of the replies.
NextSend ==
    \/ \E i \in LocalIndices(1) : Len(tasks) < MaxTasks /\ Send(1, i, "a")
    \/ Close(1)
    \/ \E t \in TaskIds : PostBegin(t)
    \/ \E t \in TaskIds, found \in BOOLEAN : MetaDone(t, found)
    \/ \E t \in TaskIds : Acquire(t)
    \/ \E t \in TaskIds : \E reply \in Replies(tasks[t].prompt) : HttpDone(t, reply)

SpecSend == Init /\ [][NextSend]_vars

\* ------------------------------------------- SpecFamily: chains of selectors

\* Roots of every size and class, with every way of configuring the proxy.
InitFamily ==
    \E r \in Roots(1 .. MaxAgents, {1}, ProxyParams, ProxyEnvs, {0}) :
        RootOf(r.pool, r.concurrency)

\* Every selector on every pool of the family, with inputs it accepts and
\* inputs it rejects.
NextFamily ==
    \/ \E p \in PoolIds, key \in TagKeys, value \in TagValues :
            Len(pools) < MaxPools /\ ByTag(p, key, value)
    \/ \E p \in PoolIds, n \in -1 .. MaxAgents + 1 :
            \E chosen \in SeqsUpTo(LocalIndices(p), Size(pools[p])) :
                Len(pools) < MaxPools /\ Sample(p, n, chosen)
    \/ \E p \in PoolIds :
            \E indices \in SeqsUpTo(-1 .. Size(pools[p]), 2) :
                Len(pools) < MaxPools /\ Select(p, indices)
    \/ \E p \in PoolIds :
            \E start, stop \in -1 .. Size(pools[p]) + 1 :
                Len(pools) < MaxPools /\ Slice(p, start, stop)

SpecFamily == InitFamily /\ [][NextFamily]_vars

\* ------------------------------------------------------ SpecTree: tree_reduce

TreeIds == 1 .. Len(patterns)

\* An AgentPool of 1 .. MaxAgents agents with a permit for each.
InitTree ==
    \E n \in 1 .. MaxAgents : RootOf(AgentPoolInit(n, MaxAgents, None, None), MaxAgents)

\* One tree_reduce on the root, broadcasting or with up to MaxAgents items,
\* with every fanin from -1 to MaxAgents; every request succeeds or fails.
NextTree ==
    \/ \E fanin \in -1 .. MaxAgents, items \in {None} \cup SeqsUpTo({"x"}, MaxAgents) :
            patterns = << >> /\ TreeReduce(1, "a", fanin, items)
    \/ \E h \in TreeIds : TreeResume(h)
    \/ \E t \in TaskIds : PostBegin(t)
    \/ \E t \in TaskIds : \E reply \in TwoReplies(tasks[t].prompt) : HttpDone(t, reply)

SpecTree == InitTree /\ [][NextTree]_vars

\* ---------------------------------------------------- SpecPipe: run_pipeline

PipeIds == 1 .. Len(patterns)

\* The prompt templates of the stages, by position.
StageTemplates ==
    <<<<"Echo: ", "{input}">>, <<"Summarise: ", "{input}">>, <<"Refine: ", "{input}">>>>
StageNames == <<"echo", "summarise", "refine">>

\* The pipelines of up to MaxStages stages, each asking for 1 .. StageAgents
\* agents, with and without a filter and a transform of its own.
Pipelines ==
    UNION {{[k \in 1 .. len |->
                Stage(StageNames[k], StageTemplates[k], shape[k].n_agents,
                      shape[k].output_transform, shape[k].output_filter)] :
              shape \in [1 .. len -> [n_agents : 1 .. StageAgents,
                                      output_transform : {"None", "len"},
                                      output_filter : {"None", "r.success"}]]} :
           len \in 0 .. MaxStages}

\* An AgentPool of 1 .. MaxAgents agents with a permit for each, or a VLLMPool.
InitPipe ==
    \/ \E n \in 1 .. MaxAgents : RootOf(AgentPoolInit(n, MaxAgents, None, None), MaxAgents)
    \/ RootOf(VLLMPoolInit(StageAgents, MaxAgents, None, MockMaxModelLen), MaxAgents)

\* One run_pipeline on the root, reusing agents or partitioning them; every
\* request succeeds or fails.
NextPipe ==
    \/ \E stages \in Pipelines, reuse_agents \in BOOLEAN :
            patterns = << >> /\ RunPipeline(1, stages, <<"hello world">>, reuse_agents)
    \/ \E h \in PipeIds : PipelineResume(h)
    \/ \E t \in TaskIds : PostBegin(t)
    \/ \E t \in TaskIds : \E reply \in TwoReplies(tasks[t].prompt) : HttpDone(t, reply)

SpecPipe == InitPipe /\ [][NextPipe]_vars

\* ------------------------------------------------- SpecBoard: Blackboard.run

BoardIds == 1 .. Len(patterns)

\* The section names: the two roles of the tagged pool and one no agent has.
SectionNames == {"worker", "critic", "judge"}

\* The convergence functions: None, and the tests' threshold on the number
\* of entries.
ConvergenceFns == {0, 2, 4}

\* An AgentPool of 1 .. BoardAgents agents tagged worker and critic in turn
\* with a permit for each, or a VLLMPool.
InitBoard ==
    \/ \E n \in 1 .. BoardAgents :
            RootOf(AgentPoolInit(n, BoardAgents, None, None), BoardAgents)
    \/ RootOf(VLLMPoolInit(2, BoardAgents, None, MockMaxModelLen), BoardAgents)

\* One blackboard of up to two sections, run up to MaxRuns times with up to
\* MaxRounds rounds, with and without a convergence function; every request
\* succeeds or fails.
NextBoard ==
    \/ \E sections \in SeqsUpTo(SectionNames, 2) :
            patterns = << >> /\ BlackboardInit(sections)
    \/ \E h \in BoardIds, max_rounds \in 0 .. MaxRounds, convergence_fn \in ConvergenceFns :
            patterns[h].runs < MaxRuns /\ BoardRun(h, 1, max_rounds, convergence_fn)
    \/ \E h \in BoardIds : BoardResume(h)
    \/ \E t \in TaskIds : PostBegin(t)
    \/ \E t \in TaskIds : \E reply \in TwoReplies(tasks[t].prompt) : HttpDone(t, reply)

SpecBoard == InitBoard /\ [][NextBoard]_vars

\* ------------------------------------ SpecLive: calls under a fair event loop

\* The prompt of the plain calls: a template with an item put into it, as the
\* leaf prompts of tree_reduce are.
LivePrompt == LeafPrompt("a", "x")

\* An AgentPool of 1 .. MaxAgents agents with 1 .. MaxConcurrency permits.
InitLive ==
    \E n \in 1 .. MaxAgents, c \in 1 .. MaxConcurrency :
        RootOf(AgentPoolInit(n, c, None, None), c)

\* One call on the root: a send_all of up to MaxPrompts prompts, a broadcast,
\* or a tree_reduce over up to MaxAgents items with a fanin of 1 .. MaxAgents;
\* every request waits for its permit and succeeds or fails.
NextLive ==
    \/ \E n \in 0 .. MaxPrompts :
            calls = << >> /\ patterns = << >> /\ SendAll(1, [k \in 1 .. n |-> LivePrompt])
    \/ calls = << >> /\ patterns = << >> /\ BroadcastPrompt(1, LivePrompt)
    \/ \E fanin \in 1 .. MaxAgents, items \in SeqsUpTo({"x"}, MaxAgents) :
            calls = << >> /\ patterns = << >> /\ TreeReduce(1, "a", fanin, items)
    \/ \E c \in 1 .. Len(calls) : patterns = << >> /\ GatherReturn(c)
    \/ \E h \in TreeIds : TreeResume(h)
    \/ \E t \in TaskIds : PostBegin(t)
    \/ \E t \in TaskIds : Acquire(t)
    \/ \E t \in TaskIds : \E reply \in TwoReplies(tasks[t].prompt) : HttpDone(t, reply)

\* The event loop runs every coroutine that can run: a gather whose awaitables
\* are done returns, a post that was created starts, a waiter is woken when a
\* permit is free; and every HTTP request ends.
SpecLive ==
    /\ InitLive /\ [][NextLive]_vars
    /\ WF_vars(\E c \in 1 .. Len(calls) : patterns = << >> /\ GatherReturn(c))
    /\ WF_vars(\E h \in TreeIds : TreeResume(h))
    /\ WF_vars(\E t \in TaskIds : PostBegin(t))
    /\ WF_vars(\E t \in TaskIds : Acquire(t))
    /\ WF_vars(\E t \in TaskIds : \E reply \in TwoReplies(tasks[t].prompt) : HttpDone(t, reply))

\* ------------------------------------------- SpecBudget: the token budget

BudgetPrompts == {"a", "abcd", "p29001", "p40000"}

\* The environment with each of the two variables set or not.
Environs ==
    [AURORA_SWARM_MAX_TOKENS : {<< >>, <<"256">>},
     AURORA_SWARM_MODEL_MAX_CONTEXT : {<< >>, <<"4096">>}]

\* A chat pool of two agents and one permit, with and without a default
\* budget, a configured context length, a buffer and the environment's values.
InitBudget ==
    \E max_tokens \in {0, 100, 10000}, ctx \in {0, MockMaxModelLen},
       buffer \in {0, DefaultBuffer}, environ \in Environs :
        RootOf(VLLMPoolConfig(2, 1, None, max_tokens, ctx, buffer, environ), 1)

\* A post or a batched post on the root with any prompts, with and without a
\* budget of the caller's, then up to MaxTasks in all with the prompt "a"; the
\* GET /v1/models and the requests end in any order and in every way.
NextBudget ==
    \/ \E i \in LocalIndices(1), prompt \in BudgetPrompts, max_tokens \in {0, 64} :
            tasks = << >> /\ SendTokens(1, i, prompt, max_tokens)
    \/ \E i \in LocalIndices(1), prompts \in SeqsUpTo(BudgetPrompts, 2),
          max_tokens \in {0, 64} :
            tasks = << >> /\ PostBatch(1, i, prompts, max_tokens)
    \/ tasks # << >> /\ Len(tasks) < MaxTasks /\ SendTokens(1, 0, "a", 0)
    \/ tasks # << >> /\ Len(tasks) < MaxTasks /\ PostBatch(1, 0, <<"a">>, 0)
    \/ \E t \in TaskIds : PostBegin(t)
    \/ \E t \in TaskIds, found \in BOOLEAN : MetaDone(t, found)
    \/ \E t \in TaskIds : MetaDoneText(t)
    \/ \E t \in TaskIds : Acquire(t)
    \/ \E t \in TaskIds : \E reply \in TwoReplies(tasks[t].prompt) : HttpDone(t, reply)
    \/ \E t \in TaskIds : BatchBegin(t)
    \/ \E t \in TaskIds, found \in BOOLEAN : BatchMetaDone(t, found)
    \/ \E t \in TaskIds : BatchAcquire(t)
    \/ \E t \in TaskIds :
            /\ tasks[t].pc = "bhttp"
            /\ \E reply \in BatchReplies(tasks[t].prompts) : BatchHttpDone(t, reply)

SpecBudget == InitBudget /\ [][NextBudget]_vars

\* ------------------------------------- SpecGather: send_all and broadcast_prompt

InitGather ==
    \E r \in Roots(1 .. MaxAgents, 1 .. MaxConcurrency, {None}, {None},
                   {0, MockMaxModelLen}) :
        RootOf(r.pool, r.concurrency)

\* One gathering call on the root, its requests ending in any order.
NextGather ==
    \/ \E prompts \in SeqsUpTo(Prompts, MaxPrompts) : calls = << >> /\ SendAll(1, prompts)
    \/ \E prompt \in Prompts : calls = << >> /\ BroadcastPrompt(1, prompt)
    \/ \E c \in 1 .. Len(calls) : GatherReturn(c)
    \/ \E t \in TaskIds : PostBegin(t)
    \/ \E t \in TaskIds, found \in BOOLEAN : MetaDone(t, found)
    \/ \E t \in TaskIds : Acquire(t)
    \/ \E t \in TaskIds : \E reply \in TwoReplies(tasks[t].prompt) : HttpDone(t, reply)

SpecGather == InitGather /\ [][NextGather]_vars

\* -------------------------------------- SpecBatch: post_batch and send_all_batched

\* The max_tokens arguments: None (0) and the tests' 100.
MaxTokensArgs == {0, 100}

\* A chat pool with the batch flag on or off.
InitBatch ==
    \E n \in 1 .. FamilyAgents, c \in 1 .. MaxConcurrency,
       ctx \in {0, MockMaxModelLen}, use_batch \in BOOLEAN :
        RootOf([VLLMPoolInit(n, c, None, ctx) EXCEPT !.use_batch = use_batch], c)

\* One send_all_batched or one direct post_batch on the root, each batched
\* request ending in any order with any reply.
NextBatch ==
    \/ \E prompts \in SeqsUpTo(Prompts, MaxPrompts), max_tokens \in MaxTokensArgs :
            tasks = << >> /\ calls = << >> /\ SendAllBatched(1, prompts, max_tokens)
    \/ \E i \in LocalIndices(1), prompts \in SeqsUpTo(Prompts, 2),
          max_tokens \in MaxTokensArgs :
            tasks = << >> /\ calls = << >> /\ PostBatch(1, i, prompts, max_tokens)
    \/ \E t \in TaskIds : BatchBegin(t)
    \/ \E t \in TaskIds, found \in BOOLEAN : BatchMetaDone(t, found)
    \/ \E t \in TaskIds : BatchAcquire(t)
    \/ \E t \in TaskIds :
            /\ tasks[t].pc = "bhttp"
            /\ \E reply \in BatchReplies(tasks[t].prompts) : BatchHttpDone(t, reply)
    \/ \E c \in 1 .. Len(calls) : BatchGatherReturn(c)
    \/ \E c \in 1 .. Len(calls) : BatchGatherRaise(c)
    \/ \E c \in 1 .. Len(calls) : ~calls[c].batched /\ GatherReturn(c)
    \/ \E t \in TaskIds : PostBegin(t)
    \/ \E t \in TaskIds, found \in BOOLEAN : MetaDone(t, found)
    \/ \E t \in TaskIds : Acquire(t)
    \/ \E t \in TaskIds : \E reply \in TwoReplies(tasks[t].prompt) : HttpDone(t, reply)

SpecBatch == InitBatch /\ [][NextBatch]_vars

\* ------------------------------------------- SpecAbort: requests that are aborted

\* Single and batched requests of the root, each ending with a reply or
\* aborted wherever it is suspended.
NextAbort ==
    \/ \E i \in LocalIndices(1) : Len(tasks) < MaxTasks /\ Send(1, i, "a")
    \/ \E i \in LocalIndices(1), prompts \in {<<"a">>, <<"a", "b">>},
          max_tokens \in MaxTokensArgs :
            /\ Len(tasks) < MaxTasks /\ pools[1].cls = "VLLMPool"
            /\ PostBatch(1, i, prompts, max_tokens)
    \/ \E t \in TaskIds : PostBegin(t)
    \/ \E t \in TaskIds, found \in BOOLEAN : MetaDone(t, found)
    \/ \E t \in TaskIds : Acquire(t)
    \/ \E t \in TaskIds : \E reply \in TwoReplies(tasks[t].prompt) : HttpDone(t, reply)
    \/ \E t \in TaskIds : BatchBegin(t)
    \/ \E t \in TaskIds, found \in BOOLEAN : BatchMetaDone(t, found)
    \/ \E t \in TaskIds : BatchAcquire(t)
    \/ \E t \in TaskIds :
            /\ tasks[t].pc = "bhttp"
            /\ \E reply \in BatchReplies(tasks[t].prompts) : BatchHttpDone(t, reply)
    \/ \E t \in TaskIds : Cancel(t)

SpecAbort == Init /\ [][NextAbort]_vars

\* ============================================================ the proxy

\* Number of endpoints of the proxy's hostfile.
ProxyAgents == 2
\* Largest number of proxied requests whose streaming is followed.
MaxHandlers == 1

poolVars == <<pools, sessions, sems, tasks, calls, raised, patterns>>

\* run_proxy's default upstream timeout, in seconds.
DefaultTimeout == 300

\* int(text) for the index texts a URL can carry: the value, or ValueError for
\* a text that is no integer literal.  int() accepts a sign and surrounding
\* white space.
IndexTexts == {"0", "1", "2", "7", "-1", "+1", " 1", "abc", "1.5"}
IntLiterals == {"0", "1", "2", "7", "-1", "+1", " 1"}
IntOf(text) ==
    CASE text = "0" -> 0
      [] text \in {"1", "+1", " 1"} -> 1
      [] text = "2" -> 2
      [] text = "7" -> 7
      [] text = "-1" -> -1

\* str(index) inside the error's f-string.
IntTokens(i) == IF i < 0 THEN <<"-", Str(-i)>> ELSE <<Str(i)>>

\* float(text) for the X-Timeout values: seconds, or ValueError.
FloatLiterals == {"5", "0", "-1"}
FloatOf(text) ==
    CASE text = "5" -> 5
      [] text = "0" -> 0
      [] text = "-1" -> -1

\* str() of the timeout, a float, inside the error's f-string.
FloatText(seconds) ==
    CASE seconds = DefaultTimeout -> "300.0"
      [] seconds = 5 -> "5.0"
      [] seconds = 0 -> "0.0"
      [] seconds = -1 -> "-1.0"

\* name.lower() for the header names of the requests.
Lower(name) ==
    CASE name = "Host" -> "host"
      [] name = "Connection" -> "connection"
      [] name = "Keep-Alive" -> "keep-alive"
      [] name = "Proxy-Authorization" -> "proxy-authorization"
      [] name = "Proxy-Connection" -> "proxy-connection"
      [] name = "TE" -> "te"
      [] name = "Trailer" -> "trailer"
      [] name \in {"Transfer-Encoding", "TRANSFER-ENCODING"} -> "transfer-encoding"
      [] name = "Upgrade" -> "upgrade"
      [] name \in {"X-Timeout", "x-timeout"} -> "x-timeout"
      [] name = "Authorization" -> "authorization"
      [] name = "X-Custom-Header" -> "x-custom-header"
      [] name = "Content-Type" -> "content-type"
      [] OTHER -> name

_HOP_BY_HOP_HEADERS ==
    {"host", "connection", "keep-alive", "proxy-authorization", "proxy-connection",
     "te", "trailer", "transfer-encoding", "upgrade"}

\* forward_headers[name] = value on a dict kept as its items in insertion
\* order: a key that is present keeps its place and takes the new value.
DictSet(items, name, value) ==
    IF \E k \in 1 .. Len(items) : items[k].name = name
    THEN [k \in 1 .. Len(items) |->
            IF items[k].name = name THEN [name |-> name, value |-> value] ELSE items[k]]
    ELSE Append(items, [name |-> name, value |-> value])

\* The loop over request.headers.items() that fills forward_headers.
RECURSIVE ForwardHeaders(_, _, _)
ForwardHeaders(headers, k, items) ==
    IF k > Len(headers) THEN items
    ELSE LET lower == Lower(headers[k].name) IN
         ForwardHeaders(headers, k + 1,
            IF lower \in _HOP_BY_HOP_HEADERS \/ lower = "x-timeout" THEN items
            ELSE DictSet(items, headers[k].name, headers[k].value))

\* request.headers.get("X-Timeout") on the case-insensitive multidict: the
\* value of the first header of that name, or None.
RECURSIVE HeaderGet(_, _, _)
HeaderGet(headers, lower, k) ==
    IF k > Len(headers) THEN None
    ELSE IF Lower(headers[k].name) = lower THEN <<headers[k].value>>
    ELSE HeaderGet(headers, lower, k + 1)

\* The timeout the handler hands to session.request.
TimeoutValue(headers, default_timeout) ==
    LET x_timeout == HeaderGet(headers, "x-timeout", 1) IN
    IF x_timeout # None /\ x_timeout[1] \in FloatLiterals
    THEN FloatOf(x_timeout[1]) ELSE default_timeout

\* downstream_url
DownstreamUrl(e, path, query_string) ==
    <<"http://", HostName[e + 1], ":8000", "/", path>>
        \o (IF query_string # "" THEN <<"?", query_string>> ELSE << >>)

\* A range check that lets negative indices through.
OutOfRangeAbove(index, n) == index >= n

\* `index < 0 or index >= len(endpoints)`
OutOfRange(index, n) == index < 0 \/ index >= n

NoUpstream == [status |-> 0, headers |-> << >>, chunks |-> << >>]

\* A _proxy_handler coroutine that has not run yet.  status is the status line
\* the client has received (0: none) and statuses how many it received;
\* sent lists the requests handed to session.request; upstream is the response
\* session.request returned; nread counts the chunks taken from it and written
\* lists those written to the client; released counts downstream_resp.release()
\* calls.  outcome and left_at are history: what session.request came to, and
\* where and how an exception left the handler.
NewHandler(index, path, query_string, headers) ==
    [index |-> index, path |-> path, query_string |-> query_string,
     headers |-> headers, pc |-> "new",
     status |-> 0, statuses |-> 0, error |-> << >>,
     sent |-> << >>, timeout_value |-> 0,
     upstream |-> NoUpstream, response_status |-> 0, response_headers |-> << >>,
     nread |-> 0, written |-> << >>, released |-> 0,
     outcome |-> "", left_at |-> "", left_by |-> ""]

\* return web.json_response({"error": error}, status=status)
JsonResponse(h, error, status) ==
    [h EXCEPT !.pc = "done", !.status = status, !.statuses = @ + 1, !.error = error]

\* A request for /agent/{index}/{path} reaches the proxy.
Arrive(index, path, query_string, headers) ==
    /\ handlers' = Append(handlers, NewHandler(index, path, query_string, headers))
    /\ UNCHANGED poolVars

\* _proxy_handler from its first line to `await request.read()`.
HandlerBegin(h) ==
    /\ handlers[h].pc = "new"
    /\ LET hd == handlers[h] IN
       handlers' = [handlers EXCEPT ![h] =
            IF hd.index \notin IntLiterals
            THEN JsonResponse(hd, <<"invalid agent index">>, 400)
            ELSE IF OutOfRange(IntOf(hd.index), ProxyAgents)
            THEN JsonResponse(hd,
                    <<"agent index ">> \o IntTokens(IntOf(hd.index))
                        \o <<" out of range [0, ", Str(ProxyAgents), ")">>, 400)
            ELSE [hd EXCEPT !.pc = "read",
                            !.timeout_value = TimeoutValue(hd.headers, DefaultTimeout)]]
    /\ UNCHANGED poolVars

\* The request body is read and session.request(...) is awaited: the request
\* goes to endpoints[index] with the forwarded headers.
ReadDone(h) ==
    /\ handlers[h].pc = "read"
    /\ LET hd == handlers[h]
           ep == At([i \in 1 .. ProxyAgents |-> i - 1], IntOf(hd.index))
       IN  handlers' = [handlers EXCEPT ![h] =
                [hd EXCEPT !.pc = "upstream",
                           !.sent = Append(@,
                                [url |-> DownstreamUrl(ep, hd.path, hd.query_string),
                                 headers |-> ForwardHeaders(hd.headers, 1, << >>),
                                 timeout |-> hd.timeout_value])]]
    /\ UNCHANGED poolVars

\* What session.request can come to: the total timeout expires while
\* connecting or waiting for the response head (TimeoutError), the connection
\* fails (ClientConnectorError, an OSError), another client error
\* (ServerDisconnectedError), or a response head with a status and headers,
\* whose body then arrives in chunks.
UpstreamHeaders ==
    <<[name |-> "Content-Type", value |-> "application/json"],
      [name |-> "Content-Length", value |-> "2"],
      [name |-> "Connection", value |-> "keep-alive"]>>
UpstreamOutcomes ==
    {[kind |-> "exc", type |-> "TimeoutError"],
     [kind |-> "exc", type |-> "ClientConnectorError"],
     [kind |-> "exc", type |-> "ServerDisconnectedError"]}
    \cup {[kind |-> "response", status |-> st, headers |-> UpstreamHeaders, chunks |-> ch] :
            st \in {200, 503}, ch \in {<<"c1">>, <<"c1", "c2">>}}

_STRIP_RESPONSE_HEADERS == {"content-encoding", "transfer-encoding", "content-length"}

\* The loop that copies the upstream's headers to the StreamResponse.
ResponseHeaders(headers) ==
    LET Kept(hdr) == Lower(hdr.name) \notin _HOP_BY_HOP_HEADERS \cup _STRIP_RESPONSE_HEADERS
    IN  SelectSeq(headers, Kept)

\* A StreamResponse that always says 200.
StreamResponseStatusOk(status) == 200

\* web.StreamResponse(status=downstream_resp.status)
StreamResponseStatus(status) == status

\* A handler that releases the upstream response only on its way to `return`.
LeaveTryOnReturn(hd, pc, how) ==
    [hd EXCEPT !.pc = pc, !.left_at = hd.pc, !.left_by = how,
               !.released = IF pc = "done" THEN @ + 1 ELSE @]

\* Control leaves the streaming try statement, by `return response`, by an
\* exception or by CancelledError: the finally clause releases the upstream
\* response.
LeaveTry(hd, pc, how) ==
    [hd EXCEPT !.pc = pc, !.left_at = hd.pc, !.left_by = how, !.released = @ + 1]

\* session.request ends.  Its exceptions are answered with 504, 502 or 500;
\* with a response the handler builds the StreamResponse and awaits prepare().
UpstreamDone(h, outcome) ==
    /\ handlers[h].pc = "upstream"
    /\ LET hd == [handlers[h] EXCEPT !.outcome =
                        IF outcome.kind = "exc" THEN outcome.type ELSE "response"]
       IN  handlers' = [handlers EXCEPT ![h] =
                IF outcome.kind = "exc"
                THEN IF outcome.type = "TimeoutError"
                     THEN JsonResponse(hd, <<"upstream timeout after ",
                                             FloatText(hd.timeout_value), "s">>, 504)
                     ELSE IF outcome.type = "ClientConnectorError"
                     THEN JsonResponse(hd, <<"cannot connect to ",
                                HostName[IntOf(hd.index) + 1], ":8000">>, 502)
                     ELSE JsonResponse(hd, <<"internal proxy error">>, 500)
                ELSE [hd EXCEPT !.pc = "prepare",
                                !.upstream = [status |-> outcome.status,
                                              headers |-> outcome.headers,
                                              chunks |-> outcome.chunks],
                                !.response_status = StreamResponseStatus(outcome.status),
                                !.response_headers = ResponseHeaders(outcome.headers)]]
    /\ UNCHANGED poolVars

\* `await response.prepare(request)` ends: the status line and headers have
\* gone to the client, or the client is gone and the write raised.
PrepareDone(h, ok) ==
    /\ handlers[h].pc = "prepare"
    /\ handlers' = [handlers EXCEPT ![h] =
            IF ok THEN [@ EXCEPT !.pc = "stream",
                                 !.status = handlers[h].response_status,
                                 !.statuses = @ + 1]
            ELSE LeaveTry(@, "raised", "ConnectionResetError")]
    /\ UNCHANGED poolVars

\* The iterator over downstream_resp.content.iter_any() is awaited for the next
\* chunk: a chunk arrives, the body is at its end, or the request's total
\* timeout expires while the body is read.
NextChunk(h, event) ==
    /\ handlers[h].pc = "stream"
    /\ LET hd == handlers[h] IN
       /\ event = "chunk" => hd.nread < Len(hd.upstream.chunks)
       /\ event = "eof" => hd.nread = Len(hd.upstream.chunks)
       /\ handlers' = [handlers EXCEPT ![h] =
            IF event = "chunk" THEN [hd EXCEPT !.pc = "write", !.nread = @ + 1]
            ELSE IF event = "eof" THEN [hd EXCEPT !.pc = "eof"]
            ELSE LeaveTry(hd, "raised", "TimeoutError")]
    /\ UNCHANGED poolVars

\* `await response.write(chunk)` ends.
WriteDone(h, ok) ==
    /\ handlers[h].pc = "write"
    /\ handlers' = [handlers EXCEPT ![h] =
            IF ok THEN [@ EXCEPT !.pc = "stream",
                                 !.written = Append(@, handlers[h].upstream.chunks[handlers[h].nread])]
            ELSE LeaveTry(@, "raised", "ConnectionResetError")]
    /\ UNCHANGED poolVars

\* `await response.write_eof()` ends, and the handler returns the response.
WriteEofDone(h, ok) ==
    /\ handlers[h].pc = "eof"
    /\ handlers' = [handlers EXCEPT ![h] =
            IF ok THEN LeaveTry(@, "done", "return")
            ELSE LeaveTry(@, "raised", "ConnectionResetError")]
    /\ UNCHANGED poolVars

\* The handler's task is cancelled (the client went away, the server shuts
\* down) at the await it is suspended in.  Inside the streaming try statement
\* the finally clause runs; before it there is nothing to release.
Abort(h) ==
    /\ handlers[h].pc \in {"read", "upstream", "prepare", "stream", "write", "eof"}
    /\ handlers' = [handlers EXCEPT ![h] =
            IF @.pc \in {"read", "upstream"}
            THEN [@ EXCEPT !.pc = "cancelled", !.left_at = handlers[h].pc,
                           !.left_by = "CancelledError"]
            ELSE LeaveTry(@, "cancelled", "CancelledError")]
    /\ UNCHANGED poolVars

InitProxy ==
    /\ pools = << >> /\ sessions = << >> /\ sems = << >>
    /\ tasks = << >> /\ calls = << >> /\ raised = ""
    /\ handlers = << >>
    /\ patterns = << >>

HandlerIds == 1 .. Len(handlers)

\* ----------------------------------- SpecRoute: the index and the headers

\* The headers a request can carry: up to two of them, a name possibly twice.
HeaderNames ==
    {"Host", "Connection", "Keep-Alive", "Proxy-Authorization", "Proxy-Connection",
     "TE", "Trailer", "Transfer-Encoding", "TRANSFER-ENCODING", "Upgrade",
     "Authorization", "X-Custom-Header", "Content-Type"}
RequestHeaders ==
    {[name |-> n, value |-> v] : n \in HeaderNames, v \in {"v", "w"}}
    \cup {[name |-> n, value |-> v] : n \in {"X-Timeout", "x-timeout"},
                                      v \in {"5", "0", "-1", "abc"}}

\* One request with any index text and any headers, up to the forwarding.
NextRoute ==
    \/ /\ handlers = << >>
       /\ \E index \in IndexTexts, query_string \in {"", "limit=10"},
             headers \in SeqsUpTo(RequestHeaders, 2) :
                Arrive(index, "generate", query_string, headers)
    \/ \E h \in HandlerIds : HandlerBegin(h)
    \/ \E h \in HandlerIds : ReadDone(h)

SpecRoute == InitProxy /\ [][NextRoute]_vars

\* ------------------------------------------ SpecStream: forwarding and streaming

\* Requests with a valid index, followed through every outcome of the
\* forwarding and of the streaming, and aborted at every await.
NextStream ==
    \/ \E index \in {"0", "1"}, headers \in {<< >>, <<[name |-> "X-Timeout", value |-> "5"]>>} :
            Len(handlers) < MaxHandlers /\ Arrive(index, "generate", "", headers)
    \/ \E h \in HandlerIds : HandlerBegin(h)
    \/ \E h \in HandlerIds : ReadDone(h)
    \/ \E h \in HandlerIds, outcome \in UpstreamOutcomes : UpstreamDone(h, outcome)
    \/ \E h \in HandlerIds, ok \in BOOLEAN : PrepareDone(h, ok)
    \/ \E h \in HandlerIds, event \in {"chunk", "eof", "timeout"} : NextChunk(h, event)
    \/ \E h \in HandlerIds, ok \in BOOLEAN : WriteDone(h, ok)
    \/ \E h \in HandlerIds, ok \in BOOLEAN : WriteEofDone(h, ok)
    \/ \E h \in HandlerIds : Abort(h)

SpecStream == InitProxy /\ [][NextStream]_vars

\* ================================================================== claims

CallIds == 1 .. Len(calls)
\* The tasks a gathering call made for position i of its input.
TasksAt(c, i) == {t \in TaskIds : tasks[t].call = c /\ tasks[t].pos = i}
\* The endpoint a request made without a proxy goes to.
DirectTo(tk, e) == SubSeq(tk.url, 1, Len(EpUrl(e))) = EpUrl(e)
\* Two requests of call c ended in the reverse of their input order.
EndedOutOfOrder(c) ==
    \E t, u \in TaskIds :
        /\ tasks[t].call = c /\ tasks[u].call = c
        /\ tasks[t].pos < tasks[u].pos /\ tasks[t].done_at > tasks[u].done_at

\* C1: a send_all that returned gives one Response per prompt, and the i-th is
\* the Response of the one request that carried prompts[i] to agent i mod N,
\* with agent_index i mod N, whatever order the requests ended in; an empty
\* prompt list gives an empty result.
C1_SendAllInputOrder ==
    \A c \in CallIds :
        (calls[c].op = "send_all" /\ calls[c].returned) =>
            LET P == pools[calls[c].pool]
                R == calls[c].result
            IN  /\ Len(R) = Len(calls[c].prompts)
                /\ \A i \in 1 .. Len(calls[c].prompts) :
                    /\ Cardinality(TasksAt(c, i)) = 1
                    /\ \A t \in TasksAt(c, i) :
                        /\ tasks[t].prompt = calls[c].prompts[i]
                        /\ tasks[t].agent_index = (i - 1) % Size(P)
                        /\ DirectTo(tasks[t], At(P.endpoints, (i - 1) % Size(P)))
                        /\ R[i] = tasks[t].result
                        /\ R[i].agent_index = (i - 1) % Size(P)

\* C1's case: more prompts than agents (an agent is reused), the requests
\* ended out of input order, some succeeding and some failing.
C1_Witness ==
    \E c \in CallIds :
        /\ calls[c].op = "send_all" /\ calls[c].returned
        /\ Len(calls[c].prompts) > Size(pools[calls[c].pool])
        /\ Size(pools[calls[c].pool]) >= 2
        /\ EndedOutOfOrder(c)
        /\ \E i, j \in 1 .. Len(calls[c].result) :
                calls[c].result[i].success /\ ~calls[c].result[j].success

\* C1 also covers the empty input.
C1_EmptyWitness ==
    \E c \in CallIds :
        calls[c].op = "send_all" /\ calls[c].returned /\ calls[c].prompts = << >>

\* C2: a broadcast_prompt that returned made exactly one request per agent,
\* each carrying the prompt, and gives N Responses, the i-th being agent i's
\* with agent_index i, whatever order the requests ended in and whichever of
\* them failed.
C2_BroadcastAgentOrder ==
    \A c \in CallIds :
        (calls[c].op = "broadcast" /\ calls[c].returned) =>
            LET P == pools[calls[c].pool]
                R == calls[c].result
                mine == {t \in TaskIds : tasks[t].call = c}
            IN  /\ Len(R) = Size(P)
                /\ Cardinality(mine) = Size(P)
                /\ \A i \in 0 .. Size(P) - 1 :
                    /\ Cardinality({t \in mine : tasks[t].agent_index = i}) = 1
                    /\ \A t \in mine :
                        tasks[t].agent_index = i =>
                            /\ tasks[t].prompt = calls[c].prompts[1]
                            /\ DirectTo(tasks[t], At(P.endpoints, i))
                            /\ R[i + 1] = tasks[t].result
                            /\ R[i + 1].agent_index = i

\* C2's case: a broadcast whose requests ended out of agent order, with both
\* successes and failures among them.
C2_Witness ==
    \E c \in CallIds :
        /\ calls[c].op = "broadcast" /\ calls[c].returned
        /\ EndedOutOfOrder(c)
        /\ \E i, j \in 1 .. Len(calls[c].result) :
                calls[c].result[i].success /\ ~calls[c].result[j].success

\* The prompt requests whose HTTP call has begun and not ended.
InFlight == {t \in TaskIds : tasks[t].pc = "http"}

\* C3: the prompt requests in flight, over the root and all its subpools, never
\* exceed the root's concurrency.
C3_FamilyCap == Cardinality(InFlight) <= pools[1].concurrency

\* C3's case: the parent's request holds the last permit and a subpool's
\* request waits for it.
C3_Witness ==
    \E t, u \in TaskIds :
        /\ tasks[t].pool = 1 /\ tasks[t].pc = "http"
        /\ tasks[u].pool > 1 /\ tasks[u].pc = "wait"
        /\ Cardinality(InFlight) = pools[1].concurrency

\* C4: a task with an HTTP request under way, the model-metadata lookup
\* included, holds a permit of its pool's limiter.
C4_RequestHoldsPermit ==
    \A t \in TaskIds :
        tasks[t].pc \in {"http", "meta"} =>
            tasks[t].permit = pools[tasks[t].pool].semaphore

\* A transport or protocol error: an exception of the HTTP call, or a body
\* that is not JSON.
TransportError(reply) ==
    reply.kind = "exc" \/ (reply.kind = "reply" /\ ~reply.json)

\* C5: post for a valid local index never lets an exception out; what it
\* returns carries the index it was called with; after a transport or protocol
\* error, and whenever success is false, text is "" and error is populated (a
\* string that is not empty).
C5_SendNeverRaises ==
    \A t \in TaskIds :
        /\ tasks[t].pc # "raised"
        /\ tasks[t].pc = "done" =>
            /\ tasks[t].result.agent_index = tasks[t].agent_index
            /\ TransportError(tasks[t].reply) => ~tasks[t].result.success
            /\ ~tasks[t].result.success =>
                    /\ tasks[t].result.text = << >>
                    /\ tasks[t].result.error # None
                    /\ tasks[t].result.error # << >>

\* The reply's JSON lacks the text fields the adapter of class cls reads.
LacksText(cls, body) ==
    IF cls = "VLLMPool"
    THEN "choices" \notin DOMAIN body \/ body.choices = << >>
    ELSE "response" \notin DOMAIN body /\ "text" \notin DOMAIN body

\* C6: under both adapters a reply with a non-2xx status, or one whose JSON
\* lacks the expected text fields, gives success = false and an error.
C6_BadReplyFails ==
    \A t \in TaskIds :
        (/\ tasks[t].pc = "done"
         /\ tasks[t].reply.kind = "reply" /\ tasks[t].reply.json
         /\ \/ tasks[t].reply.status # 200
            \/ LacksText(pools[tasks[t].pool].cls, tasks[t].reply.body))
        => ~tasks[t].result.success /\ tasks[t].result.error # None

\* The path the adapter of class cls appends for a prompt request.
AdapterPath(cls) == IF cls = "VLLMPool" THEN "/v1/chat/completions" ELSE "/generate"

\* C7: with proxy_url set, the prompt request for local index i goes to
\* rstrip(proxy_url) + "/agent/" + global_indices[i] + the adapter's path.
C7_ProxyRouting ==
    \A t \in TaskIds :
        (tasks[t].pc \in {"wait", "http", "done"}
            /\ pools[tasks[t].pool].proxy_url # None) =>
            LET P == pools[tasks[t].pool] IN
            tasks[t].url = RStripSlash(P.proxy_url)
                            \o <<"/agent/", Str(At(P.global_indices, tasks[t].agent_index)),
                                 AdapterPath(P.cls)>>

\* C8: every pool of the family has as many global indices as endpoints, and
\* global_indices[i] is the position in the root of the pool's i-th endpoint.
C8_GlobalIndicesNameRootPositions ==
    \A p \in PoolIds :
        /\ Len(pools[p].endpoints) = Len(pools[p].global_indices)
        /\ \A i \in 1 .. Len(pools[p].endpoints) :
            /\ ValidIndex(pools[1].endpoints, pools[p].global_indices[i])
            /\ pools[p].global_indices[i] >= 0
            /\ At(pools[1].endpoints, pools[p].global_indices[i]) = pools[p].endpoints[i]

\* C8's case: a subpool of a subpool whose global indices differ from its
\* local positions.
C8_Witness ==
    \E p \in PoolIds :
        /\ pools[p].derived_from > 1
        /\ Size(pools[p]) >= 2
        /\ \E i \in 1 .. Size(pools[p]) : pools[p].global_indices[i] # i - 1

\* C9: no session is constructed by a subpool, and a subpool's request uses a
\* session the root constructed.
C9_SubpoolUsesRootTransport ==
    /\ \A s \in 1 .. Len(sessions) : sessions[s].by = 1
    /\ \A t \in TaskIds :
        (tasks[t].pool > 1 /\ tasks[t].session # NoSession) =>
            sessions[tasks[t].session].by = 1

\* C10: a subpool's close() never closes the session its parent refers to.
C10_SubpoolCloseLeavesParent ==
    \A s \in 1 .. Len(sessions) :
        sessions[s].closed_by > 1 =>
            pools[pools[sessions[s].closed_by].derived_from].session # s

\* C11: when the root's close() returns, no session constructed by the root or
\* by a subpool of the family is left open.
C11_RootCloseClosesAll ==
    [][Close(1) => \A s \in 1 .. Len(sessions') : sessions'[s].closed]_vars

\* The agents the round-robin of call c targets.
Targeted(c) ==
    {(i - 1) % Size(pools[calls[c].pool]) : i \in 1 .. Len(calls[c].prompts)}

\* C12: a send_all on a chat pool whose batch flag is on issues exactly one
\* request per targeted agent.
C12_SendAllBatchesPerAgent ==
    \A c \in CallIds :
        (/\ calls[c].op = "send_all"
         /\ pools[calls[c].pool].cls = "VLLMPool"
         /\ pools[calls[c].pool].use_batch) =>
            /\ \A a \in Targeted(c) :
                Cardinality({t \in TaskIds :
                    tasks[t].call = c /\ tasks[t].agent_index = a}) = 1
            /\ \A t \in TaskIds : tasks[t].call = c => tasks[t].agent_index \in Targeted(c)

\* The post_batch coroutines among the tasks.
BatchTaskIds == {t \in TaskIds : "prompts" \in DOMAIN tasks[t]}
\* The send_group coroutines of call c.
GroupsOf(c) == {t \in BatchTaskIds : tasks[t].call = c}
\* A send_all_batched call that took the batched path.
BatchedCall(c) == calls[c].op = "send_all_batched" /\ calls[c].batched

\* C13: send_all_batched never raises and, once returned, gives one Response
\* per prompt, the p-th built from the choice the backend returned for
\* prompts[p] in its agent's batched call (or that batch's failure), with
\* agent_index p mod N; a post_batch that ended returned one Response per
\* prompt.
C13_BatchedInputOrder ==
    /\ \A t \in BatchTaskIds :
            tasks[t].pc \in {"done", "raised"} =>
                Len(tasks[t].results) = Len(tasks[t].prompts)
    /\ \A c \in CallIds :
            BatchedCall(c) =>
                /\ calls[c].raised = ""
                /\ calls[c].returned =>
                    /\ Len(calls[c].result) = Len(calls[c].prompts)
                    /\ \A t \in GroupsOf(c) :
                        \A j \in 1 .. Len(tasks[t].positions) :
                            LET p == tasks[t].positions[j]
                                r == calls[c].result[p + 1]
                            IN  /\ tasks[t].prompts[j] = calls[c].prompts[p + 1]
                                /\ r.agent_index = p % Size(pools[calls[c].pool])
                                /\ tasks[t].reply.kind = "reply" =>
                                    r = Response(TRUE, tasks[t].reply.choices[j].text,
                                                 None, tasks[t].agent_index)

HoldingPermit == {t \in TaskIds : tasks[t].pc \in {"http", "bhttp"}}
AllEnded == \A t \in TaskIds : tasks[t].pc \in {"done", "raised", "cancelled"}

\* C15: the semaphore's free permits are always the concurrency minus the
\* requests under way, however the others ended (reply, error, timeout or abort
\* at any suspension point); once every request has ended all permits are free.
C15_PermitReleased ==
    /\ sems[pools[1].semaphore] = pools[1].concurrency - Cardinality(HoldingPermit)
    /\ (tasks # << >> /\ AllEnded) => sems[pools[1].semaphore] = pools[1].concurrency

\* C15's case: one request was aborted in the middle of its HTTP call,
\* another one while it waited for that permit, and every request has ended.
C15_Witness ==
    /\ AllEnded
    /\ \E t, u \in TaskIds :
        /\ tasks[t].reply.kind = "cancel" /\ tasks[t].reply.at \in {"http", "bhttp"}
        /\ tasks[u].reply.kind = "cancel" /\ tasks[u].reply.at \in {"wait", "bwait"}

\* The index text names no endpoint: it is no integer, or an integer outside
\* [0, ProxyAgents).
BadIndex(text) ==
    text \notin IntLiterals \/ IntOf(text) < 0 \/ IntOf(text) >= ProxyAgents

\* C16: a request whose index is not an integer, negative or >= N is answered
\* with 400, with "out of range" in the error when the index is an integer, and
\* nothing is sent to a backend.
C16_BadIndexRejected ==
    \A h \in HandlerIds :
        (handlers[h].pc # "new" /\ BadIndex(handlers[h].index)) =>
            /\ handlers[h].pc = "done"
            /\ handlers[h].status = 400 /\ handlers[h].statuses = 1
            /\ handlers[h].sent = << >>
            /\ handlers[h].index \in IntLiterals =>
                    " out of range [0, " \in Range(handlers[h].error)

\* C16's case: the negative index -1 was answered with 400 "out of range".
C16_Witness ==
    \E h \in HandlerIds :
        /\ handlers[h].index = "-1" /\ handlers[h].status = 400
        /\ " out of range [0, " \in Range(handlers[h].error)
        /\ handlers[h].sent = << >>

\* The lower-case names of the headers the proxy keeps to itself.
NotForwarded == _HOP_BY_HOP_HEADERS \cup {"x-timeout"}

\* C17: no header sent to the backend is hop-by-hop or X-Timeout, whatever the
\* case of its name, and every other header of the request is sent with its
\* value.
C17_HeadersForwarded ==
    \A h \in HandlerIds :
        \A k \in 1 .. Len(handlers[h].sent) :
            LET forwarded == handlers[h].sent[k].headers IN
            /\ \A i \in 1 .. Len(forwarded) : Lower(forwarded[i].name) \notin NotForwarded
            /\ \A j \in 1 .. Len(handlers[h].headers) :
                Lower(handlers[h].headers[j].name) \notin NotForwarded =>
                    \E i \in 1 .. Len(forwarded) : forwarded[i] = handlers[h].headers[j]

\* C18: a request whose total timeout expired, while connecting, waiting for
\* the response or reading the body, got status 504; a connection error got 502
\* and another forwarding error 500; no request got two status lines.
C18_TimeoutIs504 ==
    \A h \in HandlerIds :
        /\ handlers[h].statuses <= 1
        /\ (handlers[h].outcome = "TimeoutError" \/ handlers[h].left_by = "TimeoutError")
                => handlers[h].status = 504 /\ handlers[h].statuses = 1
        /\ handlers[h].outcome = "ClientConnectorError"
                => handlers[h].status = 502 /\ handlers[h].statuses = 1
        /\ handlers[h].outcome = "ServerDisconnectedError"
                => handlers[h].status = 500 /\ handlers[h].statuses = 1

HandlerEnded(h) == handlers[h].pc \in {"done", "raised", "cancelled"}

\* C19: a handler that obtained an upstream response has released it exactly
\* once when it has ended, however it ended, and not before; a handler without
\* an upstream response releases nothing.
C19_UpstreamReleasedOnce ==
    \A h \in HandlerIds :
        handlers[h].released =
            IF handlers[h].upstream.status # 0 /\ HandlerEnded(h) THEN 1 ELSE 0

\* C19's case: a handler aborted in the middle of streaming, after a chunk had
\* gone to the client, with the upstream response released once.
C19_Witness ==
    \E h \in HandlerIds :
        /\ handlers[h].left_by = "CancelledError"
        /\ handlers[h].left_at \in {"stream", "write"}
        /\ handlers[h].written # << >>
        /\ handlers[h].released = 1

\* C20: the status the client received is the upstream's; the chunks written to
\* the client are a prefix of the upstream's, in order; at most one chunk has
\* been read and not yet written, and none when the next one is asked for; a
\* handler that returned has written them all.
C20_StreamsUpstream ==
    \A h \in HandlerIds :
        handlers[h].upstream.status # 0 =>
            /\ handlers[h].status \in {0, handlers[h].upstream.status}
            /\ handlers[h].written =
                    SubSeq(handlers[h].upstream.chunks, 1, Len(handlers[h].written))
            /\ handlers[h].nread - Len(handlers[h].written) \in {0, 1}
            /\ handlers[h].pc = "stream" => handlers[h].nread = Len(handlers[h].written)
            /\ handlers[h].pc = "done" =>
                    /\ handlers[h].status = handlers[h].upstream.status
                    /\ handlers[h].written = handlers[h].upstream.chunks

\* C20's case: a 503 of the upstream with a body of two chunks went through
\* to the client.
C20_Witness ==
    \E h \in HandlerIds :
        /\ handlers[h].pc = "done" /\ handlers[h].status = 503
        /\ handlers[h].written = <<"c1", "c2">>

\* The X-Timeout values the sentence lets replace the default: those that
\* parse as a number above zero.
PositiveTimeout(x_timeout) ==
    /\ x_timeout # None
    /\ x_timeout[1] \in FloatLiterals
    /\ FloatOf(x_timeout[1]) > 0

\* C21: the timeout of every upstream request is the proxy's default unless
\* the request's X-Timeout parses as a positive number, and then it is that
\* number; a malformed, zero or negative X-Timeout leaves the default.
C21_TimeoutPositiveOrDefault ==
    \A h \in HandlerIds :
        \A k \in 1 .. Len(handlers[h].sent) :
            LET x_timeout == HeaderGet(handlers[h].headers, "x-timeout", 1) IN
            handlers[h].sent[k].timeout =
                IF PositiveTimeout(x_timeout) THEN FloatOf(x_timeout[1])
                ELSE DefaultTimeout

\* C22: by_tag, select, slice and sample on a chat pool do not raise for the
\* inputs they accept, and the pool each one returns is a chat pool with the
\* endpoints selected and the parent's default budget, context length, buffer
\* and batch flag.
C22_ChatSubpoolKeepsConfig ==
    /\ raised # "TypeError"
    /\ \A p \in PoolIds :
        LET parent == pools[p].derived_from IN
        parent # 0 /\ pools[parent].cls = "VLLMPool" =>
            /\ pools[p].cls = "VLLMPool"
            /\ pools[p].max_tokens = pools[parent].max_tokens
            /\ pools[p].model_max_context = pools[parent].model_max_context
            /\ pools[p].buffer = pools[parent].buffer
            /\ pools[p].use_batch = pools[parent].use_batch

\* The least integer not below a / b.
CeilDiv(a, b) == (a + b - 1) \div b

\* The estimate the sentence gives: the ceiling of a quarter of the prompt's
\* length, of the mean length for the prompts of a batch.
CeilEstimate(tk) ==
    IF "prompts" \in DOMAIN tk
    THEN CeilDiv(SumLen(tk.prompts), 4 * Len(tk.prompts))
    ELSE CeilDiv(PromptLen(tk.prompt), 4)

\* The requests of the chat pool whose max_tokens has been worked out.
Budgeted == {t \in TaskIds : pools[tasks[t].pool].cls = "VLLMPool" /\ tasks[t].tokens # 0}

\* C26: a request whose caller gave no budget carries max_tokens =
\* min(default, max(128, context - E - buffer)) with E the ceiling of a quarter
\* of the prompt length (of the mean length for a batch); a budget the caller
\* gave is sent as it is.
C26_BudgetFormula ==
    \A t \in Budgeted :
        LET tk == tasks[t]
            P == pools[tk.pool]
        IN  tk.tokens =
                IF tk.max_tokens # 0 THEN tk.max_tokens
                ELSE Min(P.max_tokens,
                         Max(128, tk.model_max - CeilEstimate(tk) - P.buffer))

\* The estimate the code makes for the request.
CodeEstimate(tk) ==
    IF "prompts" \in DOMAIN tk THEN BatchPromptEst(tk.prompts) ELSE PromptEst(tk.prompt)

\* C27: a budget the chat pool computed is at least 128 and at most what the
\* context leaves after the prompt estimate and the buffer.
C27_BudgetBounds ==
    \A t \in Budgeted :
        LET tk == tasks[t]
            P == pools[tk.pool]
        IN  tk.max_tokens = 0 =>
                /\ tk.tokens >= 128
                /\ tk.tokens <= tk.model_max - CodeEstimate(tk) - P.buffer

\* The context length the sentence's four steps give a send whose lookup made
\* the GET with outcome meta.
ResolvedMaxContext(P, meta) ==
    IF P.config.model_max_context # 0 THEN P.config.model_max_context
    ELSE IF P.config.environ.AURORA_SWARM_MODEL_MAX_CONTEXT # << >>
    THEN EnvInt(P.config.environ.AURORA_SWARM_MODEL_MAX_CONTEXT[1])
    ELSE IF meta = "found" THEN MockMaxModelLen
    ELSE DefaultModelMaxContext

\* C28: the context length a send works with is the configured one, else the
\* environment's, else the max_model_len GET /v1/models listed for the model
\* (now or at the lookup that cached it), else 131072; a GET that failed or
\* whose reply was unusable gives 131072, and a send ends only through its own
\* request, never through the lookup.
C28_MaxContextResolution ==
    \A t \in TaskIds :
        LET tk == tasks[t]
            P == pools[tk.pool]
        IN  P.cls = "VLLMPool" =>
            /\ tk.meta # "" => tk.model_max = ResolvedMaxContext(P, tk.meta)
            /\ tk.meta = "" /\ tk.model_max # 0 =>
                \/ tk.model_max = ResolvedMaxContext(P, "found")
                        /\ (P.config.model_max_context # 0
                            \/ P.config.environ.AURORA_SWARM_MODEL_MAX_CONTEXT # << >>)
                \/ \E u \in TaskIds :
                        /\ tasks[u].meta # ""
                        /\ tk.model_max = ResolvedMaxContext(P, tasks[u].meta)
            /\ tk.pc \in {"done", "raised"} /\ tk.max_tokens = 0 =>
                    /\ tk.url # EpUrl(At(P.endpoints, 0)) \o <<"/v1/models">>
                    /\ tk.reply # StrMinusInt

\* How often x occurs in seq.
Count(seq, x) == Cardinality({i \in 1 .. Len(seq) : seq[i] = x})

\* Every value occurs in s at most as often as in whole.
SubMultiset(s, whole) == \A i \in 1 .. Len(s) : Count(s, s[i]) <= Count(whole, s[i])

\* The step made a subpool of pool p; it is the last pool of the family after it.
Derives(p) == Len(pools') = Len(pools) + 1 /\ pools'[Len(pools')].derived_from = p

\* The local positions of P whose tag `key` is `value`, and the k-th of them
\* from the front.
Matching(P, key, value) ==
    {i \in 0 .. Size(P) - 1 : TagGet(At(P.endpoints, i), key) = value}
NthOf(M, k) == CHOOSE i \in M : Cardinality({j \in M : j < i}) = k - 1

\* C23: the global indices of a subpool made in one step are contained in its
\* parent's as a multiset; by_tag lists those of exactly the matching agents in
\* the parent's order, select those at the caller's indices in the caller's
\* order, slice(start, stop) those at positions start .. stop - 1.
C23_SubpoolIndicesOrdered ==
    [][\A p \in PoolIds :
        LET P == pools[p]
            S == pools'[Len(pools')]
        IN  /\ Derives(p) => SubMultiset(S.global_indices, P.global_indices)
            /\ \A key \in TagKeys, value \in TagValues :
                ByTag(p, key, value) /\ Derives(p) =>
                    LET M == Matching(P, key, value) IN
                    S.global_indices =
                        [k \in 1 .. Cardinality(M) |-> At(P.global_indices, NthOf(M, k))]
            /\ \A indices \in SeqsUpTo(-1 .. Size(P), 2) :
                Select(p, indices) /\ Derives(p) =>
                    S.global_indices =
                        [k \in 1 .. Len(indices) |-> At(P.global_indices, indices[k])]
            /\ \A start, stop \in 0 .. Size(P) :
                Slice(p, start, stop) /\ Derives(p) =>
                    S.global_indices =
                        [k \in 1 .. Max(stop - start, 0) |-> At(P.global_indices, start + k - 1)]
      ]_vars

\* C24: sample(n) on a pool of N agents makes a subpool of min(n, N) agents
\* whose global indices are pairwise distinct and all among the parent's.
C24_SampleDistinct ==
    [][\A p \in PoolIds, n \in 0 .. MaxAgents + 1 :
        \A chosen \in SeqsUpTo(LocalIndices(p), Size(pools[p])) :
            Sample(p, n, chosen) =>
                LET S == pools'[Len(pools')] IN
                /\ Derives(p)
                /\ Size(S) = Min(n, Size(pools[p]))
                /\ Injective(S.global_indices)
                /\ Range(S.global_indices) \subseteq Range(pools[p].global_indices)
      ]_vars

\* Pool p has no session to close: it never made one, or its session is closed.
NothingToClose(p) ==
    pools[p].session = NoSession \/ sessions[pools[p].session].closed

\* C25: close() never raises, whatever requests the pool has made and however
\* they ended; it leaves the pool's session closed; and a close() of a pool
\* that has no open session changes nothing.
C25_CloseIdempotent ==
    [][\A p \in PoolIds :
        Close(p) =>
            /\ raised' = ""
            /\ NothingToClose(p)'
            /\ NothingToClose(p) => UNCHANGED <<pools, sessions, sems, tasks, calls>>
      ]_vars

\* C25's case: the pool was closed after one request succeeded and one failed,
\* and is now in the state a further close() is called in.
C25_Witness ==
    /\ pools[1].session # NoSession /\ sessions[pools[1].session].closed
    /\ \E t \in TaskIds : tasks[t].pc = "done" /\ tasks[t].result.success
    /\ \E t \in TaskIds : tasks[t].pc = "done" /\ ~tasks[t].result.success

\* The calls of a tree_reduce: its leaf phase, its reduction rounds, and the
\* positions of a call's successful responses.
Leaves(T) == calls[T.gathers[1]].n
Rounds(T) == Len(T.gathers) - 1
Succeeded(c) == {k \in 1 .. Len(calls[c].result) : calls[c].result[k].success}

\* The texts in the supervisor prompts of a call, group after group.
RECURSIVE Chunked(_)
Chunked(prompts) ==
    IF prompts = << >> THEN << >> ELSE Head(prompts).responses \o Chunked(Tail(prompts))

\* C29: a tree_reduce with a fanin of at least 1 does not raise, whichever
\* requests fail; the groups of every reduction round hold, in order, exactly
\* the texts of the successful responses of the phase before, at most fanin to
\* a group; and it returns a failure Response if the leaf phase or a round had
\* no success, a successful Response otherwise.
C29_TreeReduceSurvivesFailures ==
    \A h \in TreeIds :
        LET T == patterns[h] IN
        T.fanin >= 1 =>
            /\ T.pc # "raised"
            /\ \A j \in 2 .. Len(T.gathers) :
                LET sup == calls[T.gathers[j]]
                    before == T.gathers[j - 1]
                    texts == Chunked(sup.prompts)
                IN  /\ calls[before].returned
                    /\ Len(texts) = Cardinality(Succeeded(before))
                    /\ \A i \in 1 .. Len(texts) :
                        texts[i] = calls[before].result[NthOf(Succeeded(before), i) ].text
                    /\ \A k \in 1 .. Len(sup.prompts) :
                        Len(sup.prompts[k].responses) \in 1 .. T.fanin
            /\ T.pc = "done" =>
                /\ T.result.success =
                        (\A j \in 1 .. Len(T.gathers) : Succeeded(T.gathers[j]) # {})
                /\ T.result.success => T.result.error = None
                /\ ~T.result.success => T.result.error # None /\ T.result.text = << >>

\* C29's case: a leaf failed, the others were reduced in a round, and
\* tree_reduce returned a successful Response.
C29_Witness ==
    \E h \in TreeIds :
        /\ patterns[h].pc = "done" /\ patterns[h].result.success
        /\ Rounds(patterns[h]) >= 1
        /\ Cardinality(Succeeded(patterns[h].gathers[1])) < Leaves(patterns[h])

\* C29's other case: a reduction round in which every supervisor failed, and
\* the failure Response returned for it.
C29_FailureWitness ==
    \E h \in TreeIds :
        /\ patterns[h].pc = "done" /\ ~patterns[h].result.success
        /\ Rounds(patterns[h]) >= 1

\* C30 as the sentence has it: a tree_reduce whose fanin is at least the number
\* of leaves has made exactly one reduction round, of one supervisor request,
\* when it returns.
C30_ExactlyOneRound ==
    \A h \in TreeIds :
        LET T == patterns[h] IN
        T.pc = "done" /\ T.fanin >= Leaves(T) =>
            Rounds(T) = 1 /\ calls[T.gathers[2]].n = 1

\* C30: a tree_reduce whose fanin is at least the number of leaves makes at
\* most one reduction round; when it returns it has made exactly one, of one
\* supervisor request, if two or more leaves succeeded, and none otherwise.
C30_OneRoundIfTwoSucceed ==
    \A h \in TreeIds :
        LET T == patterns[h] IN
        T.pc \in {"await", "done"} /\ T.fanin >= Leaves(T) =>
            /\ Rounds(T) <= 1
            /\ T.pc = "done" =>
                IF Cardinality(Succeeded(T.gathers[1])) >= 2
                THEN Rounds(T) = 1 /\ calls[T.gathers[2]].n = 1
                ELSE Rounds(T) = 0

\* C30's case: three leaves, a fanin of three, one round of one supervisor.
C30_Witness ==
    \E h \in TreeIds :
        /\ patterns[h].pc = "done" /\ patterns[h].result.success
        /\ Leaves(patterns[h]) = 3 /\ patterns[h].fanin = 3
        /\ Rounds(patterns[h]) = 1 /\ calls[patterns[h].gathers[2]].n = 1

\* ---------------------------------------------------------------- C35
\* The pools whose _model_max_context_cached holds a value.
CacheHolds(p) == pools[p].cls = "VLLMPool" /\ pools[p].model_max_context_cached # 0

\* C35: the cache of the model's maximum context length is set once: after it
\* first holds a value no step changes it, however the concurrent first
\* requests interleave and whether their GET /v1/models succeed or fail.
C35_CacheSetOnce ==
    [][\A p \in PoolIds :
         CacheHolds(p) =>
            pools'[p].model_max_context_cached = pools[p].model_max_context_cached]_vars

\* ---------------------------------------------------------------- C38
\* The k-th of the consecutive chunks of at most fanin texts of a list.
ChunkOf(texts, fanin, k) == SubSeq(texts, (k - 1) * fanin + 1, Min(k * fanin, Len(texts)))

\* The requests of a call have all ended.
AllReturned(c) == \A t \in calls[c].first .. calls[c].first + calls[c].n - 1 : t \in Ended

\* Reduction round r of a tree_reduce was given the successful texts of the
\* phase before it: it sent one supervisor prompt for each of the
\* ceil(m / fanin) consecutive chunks, naming level r, and only after every
\* request of the phase before had returned.
RoundChunks(T, r) ==
    LET before == calls[T.gathers[r]]
        round == calls[T.gathers[r + 1]]
        texts == SuccessTexts(before.result)
    IN  /\ AllReturned(T.gathers[r]) /\ before.returned
        /\ round.op = "send_all"
        /\ round.n = CeilDiv(Len(texts), T.fanin)
        /\ Len(round.prompts) = round.n
        /\ \A k \in 1 .. round.n :
              /\ round.prompts[k].level = r
              /\ round.prompts[k].responses = ChunkOf(texts, T.fanin, k)
              /\ Len(round.prompts[k].responses) \in 1 .. T.fanin
              /\ tasks[round.first + k - 1].prompt = round.prompts[k]

\* Eight texts chunked with a fanin of 4 make two groups of four, and the two
\* texts that come back make one group.
EightLeaves ==
    LET eight == [k \in 1 .. 8 |-> <<"t", IntStr[k]>>]
    IN  /\ Groups(eight, 4) = <<SubSeq(eight, 1, 4), SubSeq(eight, 5, 8)>>
        /\ Len(Groups(SubSeq(eight, 1, 2), 4)) = 1

\* C38: reduction round r of tree_reduce splits the m current successful
\* texts, in order, into ceil(m / fanin) consecutive chunks of at most fanin
\* texts, sends exactly one supervisor prompt per chunk with {level} replaced
\* by r, and starts only after every request of the round before has returned;
\* 8 leaf successes with a fanin of 4 make 2 supervisor calls at level 1 and 1
\* at level 2.
C38_RoundsChunkByFanin ==
    /\ EightLeaves
    /\ \A h \in TreeIds :
          patterns[h].fanin >= 1 =>
              \A r \in 1 .. Rounds(patterns[h]) : RoundChunks(patterns[h], r)

\* Three leaves succeeded with a fanin of 2: two supervisor requests at level
\* 1, both succeeded, then one at level 2, and tree_reduce has returned.
C38_Witness ==
    \E h \in TreeIds :
        /\ patterns[h].pc = "done" /\ patterns[h].fanin = 2
        /\ Leaves(patterns[h]) = 3 /\ Rounds(patterns[h]) = 2
        /\ calls[patterns[h].gathers[2]].n = 2
        /\ calls[patterns[h].gathers[3]].n = 1
        /\ calls[patterns[h].gathers[3]].prompts[1].level = 2

\* ---------------------------------------------------------------- C39
\* A call has been made on the pool.
CallIssued == calls # << >> \/ patterns # << >>

\* Every call has returned: every gather, and every pattern call.
CallsReturned ==
    /\ \A c \in 1 .. Len(calls) : calls[c].returned
    /\ \A h \in TreeIds : patterns[h].pc # "await"

RequestPending == TaskIds # Ended

\* Every request has ended, no permit is held, and every gather whose
\* requests have ended has returned to its caller.
RequestsOver ==
    /\ TaskIds = Ended
    /\ sems[pools[1].semaphore] = pools[1].concurrency
    /\ \A c \in 1 .. Len(calls) : calls[c].returned \/ patterns # << >>

\* The limiter neither deadlocks nor starves a request: every request that
\* was issued ends, whatever the number of permits.
C39_RequestsEnd == RequestPending ~> RequestsOver

\* More requests than permits: a request waits for a permit while another
\* holds the only one.
C39_Contention ==
    \E t, u \in TaskIds :
        /\ tasks[t].pc = "wait" /\ tasks[u].pc = "http"
        /\ sems[pools[1].semaphore] = 0

\* ---------------------------------------------------------------- C40
\* Reduction round r of a tree_reduce has returned with fewer successful texts
\* than it was given.
RoundShrinks(T, r) ==
    calls[T.gathers[r + 1]].returned =>
        Cardinality(Succeeded(T.gathers[r + 1])) < Cardinality(Succeeded(T.gathers[r]))

\* C40: tree_reduce on a pool of at least one agent with a fanin of at least 1
\* comes to its return whatever the number of leaf successes and whatever the
\* requests answer: every reduction round leaves fewer texts than it was
\* given, so the number of current texts reaches at most 1 after finitely
\* many rounds.
C40_EveryRoundShrinks ==
    \A h \in TreeIds :
        (patterns[h].fanin >= 1 /\ Size(pools[patterns[h].pool]) >= 1) =>
            \A r \in 1 .. Rounds(patterns[h]) : RoundShrinks(patterns[h], r)

\* With a fanin of at least 2 every round leaves fewer texts than it was given.
C40_RoundsShrinkFromFaninTwo ==
    \A h \in TreeIds :
        patterns[h].fanin >= 2 =>
            \A r \in 1 .. Rounds(patterns[h]) : RoundShrinks(patterns[h], r)

\* A tree_reduce with a fanin of at least 1 has been called on the pool.
TreeCalled == patterns # << >> /\ patterns[1].fanin >= 1
\* It has returned a Response.
TreeReturned == patterns # << >> /\ patterns[1].pc = "done"

\* Under the fair event loop a tree_reduce that was called returns.
C40_TreeReduceReturns == TreeCalled ~> TreeReturned

\* A tree_reduce is about to start a round beyond MaxLevels: its last round
\* has returned with more than one success.
GoesOn(T) ==
    /\ T.pc = "await" /\ Rounds(T) = MaxLevels
    /\ AllReturned(T.gathers[Len(T.gathers)])
    /\ Len(SuccessTexts(Gathered(calls[T.gathers[Len(T.gathers)]]))) > 1

\* Only a tree_reduce with a fanin of 1 is followed no further: with a larger
\* fanin it has returned within MaxLevels rounds.
C40_OnlyFaninOneGoesOn ==
    \A h \in TreeIds : (patterns[h].fanin >= 1 /\ GoesOn(patterns[h])) => patterns[h].fanin = 1

\* Two leaves succeeded with a fanin of 1, and so did every supervisor request
\* of MaxLevels rounds of two requests each.
C40_FaninOneGoesOn ==
    \E h \in TreeIds :
        /\ patterns[h].fanin = 1 /\ GoesOn(patterns[h])
        /\ \A r \in 1 .. MaxLevels : calls[patterns[h].gathers[r + 1]].n = 2

\* ---------------------------------------------------------------- C31
\* The requests of stage k of a pipeline: the coroutines of its broadcast.
StageRequests(L, k) == {t \in TaskIds : tasks[t].call = L.gathers[k]}

\* C31: every stage of run_pipeline broadcasts to exactly
\* min(stage.n_agents, pool.size) agents, with reuse_agents true and false and
\* for every number of stages.
C31_StageAgentCount ==
    \A h \in PipeIds :
        \A k \in 1 .. Len(patterns[h].gathers) :
            Cardinality(StageRequests(patterns[h], k)) =
                Min(patterns[h].stages[k].n_agents, Size(pools[patterns[h].pool]))

\* ---------------------------------------------------------------- C32
\* Where the window of stage k ends when the stages partition a pool of
\* `size` agents: each stage takes n_agents from where the one before ended,
\* as far as the pool reaches.
RECURSIVE WindowEnd(_, _, _)
WindowEnd(stages, k, size) ==
    IF k = 0 THEN 0 ELSE Min(WindowEnd(stages, k - 1, size) + stages[k].n_agents, size)

\* The agents [from, to) of the pool, in order.
Window(from, to) == [i \in 1 .. to - from |-> from + i - 1]

\* The agents of the root pool that stage k of a pipeline sent to, in the
\* order of its requests.
StageAgentsOf(L, k) ==
    [j \in 1 .. calls[L.gathers[k]].n |->
        At(pools[tasks[calls[L.gathers[k]].first + j - 1].pool].global_indices,
           tasks[calls[L.gathers[k]].first + j - 1].agent_index)]

\* C32: with reuse_agents false the agent sets of the stages are pairwise
\* disjoint contiguous windows in stage order, stage k starting where stage
\* k - 1 ended; with reuse_agents true every stage uses the prefix
\* [0, min(n_agents, pool.size)).
C32_StageWindows ==
    \A h \in PipeIds :
        LET L == patterns[h]
            size == Size(pools[L.pool])
        IN  \A k \in 1 .. Len(L.gathers) :
                /\ L.reuse_agents =>
                      StageAgentsOf(L, k) = Window(0, Min(L.stages[k].n_agents, size))
                /\ ~L.reuse_agents =>
                      /\ StageAgentsOf(L, k) = Window(WindowEnd(L.stages, k - 1, size),
                                                     WindowEnd(L.stages, k, size))
                      /\ \A j \in 1 .. k - 1 :
                            Range(StageAgentsOf(L, j)) \cap Range(StageAgentsOf(L, k)) = {}
                /\ pools[L.windows[k]].global_indices = StageAgentsOf(L, k)
                /\ \A j \in 1 .. Len(StageAgentsOf(L, k)) :
                      At(pools[L.windows[k]].endpoints, j - 1) =
                          At(pools[L.pool].endpoints, StageAgentsOf(L, k)[j])

\* A partitioned pipeline of two stages on three agents has returned: its
\* first stage used agents 0 and 1, its second the one agent left.
C32_Witness ==
    \E h \in PipeIds :
        /\ patterns[h].pc = "done" /\ ~patterns[h].reuse_agents
        /\ Len(patterns[h].gathers) = 2
        /\ StageAgentsOf(patterns[h], 1) = <<0, 1>>
        /\ StageAgentsOf(patterns[h], 2) = <<2>>

\* A reusing pipeline of two stages on three agents has returned: both stages
\* used agents 0 and 1.
C32_ReuseWitness ==
    \E h \in PipeIds :
        /\ patterns[h].pc = "done" /\ patterns[h].reuse_agents
        /\ Size(pools[patterns[h].pool]) = 3
        /\ Len(patterns[h].gathers) = 2
        /\ StageAgentsOf(patterns[h], 1) = <<0, 1>>
        /\ StageAgentsOf(patterns[h], 2) = <<0, 1>>

\* ---------------------------------------------------------------- C37
\* The texts, one per line.
RECURSIVE Lines(_)
Lines(texts) ==
    IF Len(texts) = 0 THEN << >>
    ELSE IF Len(texts) = 1 THEN Head(texts)
    ELSE Head(texts) \o <<"\n">> \o Lines(Tail(texts))

\* The output of a stage given the responses of its broadcast: what its
\* filter keeps, handed to its transform; without a transform the successful
\* texts, one per line.
StageOutput(stage, responses) ==
    LET kept == IF stage.output_filter = "None" THEN responses
                ELSE SelectSeq(responses, LAMBDA r : r.success)
        ok == SelectSeq(kept, LAMBDA r : r.success)
    IN  IF stage.output_transform = "len" THEN <<IntStr[Len(kept) + 1]>>
        ELSE Lines([j \in 1 .. Len(ok) |-> ok[j].text])

\* The input of stage k: the initial input, or the output of the stage before.
StageInput(L, k) ==
    IF k = 1 THEN L.initial_input
    ELSE StageOutput(L.stages[k - 1], calls[L.gathers[k - 1]].result)

\* C37: the stages of run_pipeline run strictly in order: no request of stage
\* k + 1 exists before every request of stage k has returned; the prompt of
\* stage k + 1 is its template with {input} replaced by the output of stage k
\* after the stage's filter and then its transform (the initial input for the
\* first stage); and the result is the last stage's transformed output.
C37_StagesInOrder ==
    \A h \in PipeIds :
        LET L == patterns[h] IN
        /\ \A k \in 1 .. Len(L.gathers) :
              /\ k > 1 => AllReturned(L.gathers[k - 1]) /\ calls[L.gathers[k - 1]].returned
              /\ k > 1 => L.gathers[k - 1] < L.gathers[k]
              /\ \A t \in StageRequests(L, k) :
                    tasks[t].prompt = <<L.stages[k].prompt_template[1]>> \o StageInput(L, k)
        /\ L.pc = "done" =>
              /\ Len(L.gathers) = Len(L.stages)
              /\ L.result = StageInput(L, Len(L.stages) + 1)

\* A pipeline of two stages has returned; the first stage counted the
\* responses its filter kept, one of its two requests had failed, and the
\* second stage was asked to summarise "1".
C37_Witness ==
    \E h \in PipeIds :
        /\ patterns[h].pc = "done" /\ Len(patterns[h].stages) = 2
        /\ patterns[h].stages[1].output_filter = "r.success"
        /\ patterns[h].stages[1].output_transform = "len"
        /\ calls[patterns[h].gathers[1]].n = 2
        /\ Cardinality(Succeeded(patterns[h].gathers[1])) = 1
        /\ calls[patterns[h].gathers[2]].prompts = <<<<"Summarise: ", "1">>>>
        /\ patterns[h].stages[2].output_transform = "None"
        /\ patterns[h].result # << >>

\* ---------------------------------------------------------------- C33
\* The sections of a blackboard that some agent of the pool has as its role,
\* in insertion order.
ActiveSections(B) ==
    SelectSeq(B.sections,
              LAMBDA s : \E i \in 0 .. Size(pools[B.pool]) - 1 :
                            TagGet(At(pools[B.pool].endpoints, i), "role") = s)

\* The sections broadcast to in round number r, in the order of the broadcasts.
RoundSections(B, r) ==
    LET gs == SelectSeq(B.gathers, LAMBDA g : g.round = r)
    IN  [k \in 1 .. Len(gs) |-> gs[k].section]

\* The number of successful responses of the first m broadcasts of a board.
RECURSIVE Successes(_, _)
Successes(B, m) ==
    IF m = 0 THEN 0
    ELSE Cardinality(Succeeded(B.gathers[m].call)) + Successes(B, m - 1)

\* The rounds of a blackboard so far: at most max_rounds in a run; a round is
\* counted once every section with agents has been broadcast to; the
\* convergence function is asked once per counted round, after the count, and
\* the run is over as soon as it answers true.
RoundsCounted(B) ==
    /\ B.i <= B.max_rounds /\ B._round = B.base + B.i
    /\ \A r \in 0 .. B._round - 1 : RoundSections(B, r) = ActiveSections(B)
    /\ B.pc = "done" =>
          \/ B.i = B.max_rounds
          \/ B.evals # << >> /\ B.evals[Len(B.evals)].stop
    /\ B.convergence_fn # 0 =>
          Cardinality({j \in 1 .. Len(B.evals) : B.evals[j].run = B.runs}) = B.i
    /\ \A j \in 1 .. Len(B.evals) :
          LET e == B.evals[j] IN
          /\ e.round \in 1 .. B._round
          /\ j > 1 => B.evals[j - 1].round < e.round
          /\ e.gathers = e.round * Len(ActiveSections(B))
          /\ e.run = B.runs =>
                e.stop = (Successes(B, e.gathers) >= B.convergence_fn)
          /\ (e.stop /\ e.run = B.runs) =>
                B.pc = "done" /\ B._round = e.round /\ j = Len(B.evals)

\* C33: Blackboard.run executes at most max_rounds rounds, increments the
\* round counter by exactly one after each round once all sections have been
\* processed, evaluates the convergence predicate only at the end of a round,
\* after the increment, and stops after the first round for which it is true;
\* the round counter never decreases.
C33_RoundsAndConvergence ==
    /\ [](\A h \in BoardIds : patterns[h].pc # "idle" => RoundsCounted(patterns[h]))
    /\ [][\A h \in BoardIds : patterns'[h]._round >= patterns[h]._round]_vars

\* The convergence test of the tests (four entries) stopped a run of up to
\* two rounds on four agents after its first round.
C33_Witness ==
    \E h \in BoardIds :
        /\ patterns[h].pc = "done" /\ patterns[h].max_rounds = 2
        /\ patterns[h].convergence_fn = 4 /\ patterns[h]._round = 1
        /\ Len(patterns[h].gathers) = 2
        /\ Successes(patterns[h], 2) = 4

\* A run of two rounds whose convergence test answered false after the first
\* round and was asked again after the second.
C33_TwoRoundsWitness ==
    \E h \in BoardIds :
        /\ patterns[h].pc = "done" /\ patterns[h]._round = 2
        /\ Len(patterns[h].evals) = 2 /\ ~patterns[h].evals[1].stop
        /\ Len(patterns[h].gathers) = 4

\* ---------------------------------------------------------------- C34
\* The texts of the successful responses of the first m broadcasts of a board
\* that went to a section, broadcast after broadcast and agent after agent.
RECURSIVE SectionTexts(_, _, _)
SectionTexts(B, section, m) ==
    IF m = 0 THEN << >>
    ELSE LET rs == calls[B.gathers[m].call].result
             ok == SelectSeq(rs, LAMBDA r : r.success)
         IN  SectionTexts(B, section, m - 1) \o
                (IF B.gathers[m].section = section
                 THEN [j \in 1 .. Len(ok) |-> ok[j].text] ELSE << >>)

\* The number of agents of the board's pool with the role.
RoleAgents(B, role) ==
    Cardinality({i \in 0 .. Size(pools[B.pool]) - 1 :
                    TagGet(At(pools[B.pool].endpoints, i), "role") = role})

\* No request of the board has failed.
AllSucceeded(B) ==
    \A m \in 1 .. Len(B.gathers) :
        \A t \in TaskIds : tasks[t].call = B.gathers[m].call =>
            (tasks[t].pc = "done" => tasks[t].result.success)

\* A section holds the successful texts of its broadcasts, in the order of the
\* broadcasts and of the agents; the responses of a broadcast come in agent
\* order; with no failure a section holds one entry per round and agent of
\* its role.
SectionsHold(B) ==
    /\ \A k \in 1 .. Len(B._board) :
          /\ B._board[k].entries = SectionTexts(B, B._board[k].section, Len(B.gathers))
          /\ (B.pc = "done" /\ AllSucceeded(B)) =>
                Len(B._board[k].entries) = B._round * RoleAgents(B, B._board[k].section)
    /\ \A m \in 1 .. Len(B.gathers) :
          LET rs == calls[B.gathers[m].call].result IN
          \A j \in 1 .. Len(rs) : rs[j].agent_index = j - 1

\* One section list is the beginning of the other.
IsPrefix(a, b) == Len(a) <= Len(b) /\ SubSeq(b, 1, Len(a)) = a

\* C34: in each round, for each section whose role some agent has, exactly
\* the texts of the successful responses are appended to the section, in
\* agent-index order; entries are never removed or reordered; and when every
\* request succeeds a section holds (rounds run) x (agents with that role)
\* entries.
C34_SectionsAccumulate ==
    /\ [](\A h \in BoardIds : patterns[h].pc # "idle" => SectionsHold(patterns[h]))
    /\ [][\A h \in BoardIds : \A k \in 1 .. Len(patterns[h]._board) :
            /\ patterns'[h]._board[k].section = patterns[h]._board[k].section
            /\ IsPrefix(patterns[h]._board[k].entries, patterns'[h]._board[k].entries)]_vars

\* Two rounds on two workers and two critics with every request succeeding:
\* each section holds four entries and the round counter is 2.
C34_Witness ==
    \E h \in BoardIds :
        /\ patterns[h].pc = "done" /\ patterns[h]._round = 2
        /\ Len(patterns[h]._board) = 2
        /\ RoleAgents(patterns[h], "worker") = 2 /\ RoleAgents(patterns[h], "critic") = 2
        /\ \A k \in 1 .. 2 : Len(patterns[h]._board[k].entries) = 4

\* A run has returned with a section that holds fewer entries than rounds x
\* agents: a request had failed.
C34_FailureWitness ==
    \E h \in BoardIds :
        /\ patterns[h].pc = "done" /\ patterns[h]._round = 2
        /\ \E k \in 1 .. Len(patterns[h]._board) :
              /\ RoleAgents(patterns[h], patterns[h]._board[k].section) = 2
              /\ Len(patterns[h]._board[k].entries) = 3

\* ---------------------------------------------------------------- C36
\* The prompt the tests' prompt function makes for a role when the board
\* holds `total` entries.
ShownPrompt(role, total) ==
    <<"You are a ", role, ". Board has ">> \o Decimal(total) \o <<" entries. Contribute.">>

\* C36: within a round the sections are processed in insertion order, one at
\* a time: the broadcast of a section has fully returned and its texts are on
\* the board before prompt_fn is evaluated for the next section, so each
\* section's prompt sees every entry appended earlier, those of the same round
\* included.
C36_SectionsOneAtATime ==
    \A h \in BoardIds :
        LET B == patterns[h] IN
        /\ \A r \in 0 .. B._round : IsPrefix(RoundSections(B, r), ActiveSections(B))
        /\ \A m \in 1 .. Len(B.gathers) :
              /\ m > 1 => /\ AllReturned(B.gathers[m - 1].call)
                          /\ calls[B.gathers[m - 1].call].returned
                          /\ B.gathers[m - 1].call < B.gathers[m].call
              /\ \A t \in TaskIds : tasks[t].call = B.gathers[m].call =>
                    tasks[t].prompt = ShownPrompt(B.gathers[m].section, Successes(B, m - 1))

\* The critics of the first round were shown a board with the two entries the
\* workers had just added.
C36_Witness ==
    \E h \in BoardIds :
        /\ Len(patterns[h].gathers) >= 2
        /\ patterns[h].gathers[2].round = 0 /\ patterns[h].gathers[2].section = "critic"
        /\ patterns[h].gathers[1].section = "worker"
        /\ calls[patterns[h].gathers[2].call].prompts = <<ShownPrompt("critic", 2)>>
        /\ Len(patterns[h]._board[1].entries) = 2

====
